---- MODULE Spec2Model ----
(***************************************************************************)
(* Timetable solver of swp_stundenplan: the loader (prepare), the          *)
(* evaluator (fitness_function) and the search driver (genetic_algorithm,  *)
(* main) of src/python/genetic_algorithm.py and src/python/main.py.        *)
(*                                                                         *)
(* Genes are 0-based indices into date_x_room as in the Python code; TLA+  *)
(* sequences are 1-based, so slot g is date_x_room[g + 1].                 *)
(***************************************************************************)
EXTENDS Integers, Sequences, FiniteSets, TLC

(***************************************************************************)
(* Bounds of the model.                                                    *)
(***************************************************************************)
MaxEvents == 2
NumDates == 2
NumRooms == 3
\* the search, scaled down: SOL_PER_POP (300), num_parents_mating (10),
\* K_tournament (30) and the generation budget of the command line
PopSize == 3
NumParents == 2
TournamentK == 2
MaxGenerations == 3
\* number of random streams the seed may stand for
NumStreams == 2
MaxInitializeCalls == 3
NumRowKeys == 1
MaxBatch == 2

(***************************************************************************)
(* Program constants.                                                      *)
(***************************************************************************)
HARD_CONSTRAINT == 100
MIN_VALUE == 1
MAX_VALUE == 100
\* mutation_probability=(0.1, 0.01), in percent
MutationPercentHigh == 10
MutationPercentLow == 1
\* period of the model's random number generator
RngMod == 1024

VARIABLES
    \* the store snapshot read through api.py
    term, events_by_id, dates_by_id, rooms_by_id, priority_rows, dislike_rows,
    \* the result of prepare(term)
    lessons, date_x_room, employee_dislikes_date,
    \* one evaluation by fitness_function, block by block
    solution, eval_pc, eval_k, fitness, employee_planned_at_date,
    date_x_students, hits_employee, hits_student, eval_result,
    \* the number of the evaluation and the value the first one returned
    eval_no, first_result,
    \* parse_pygad_solution_for_print: position, argument, dictionary returned
    parse_pc, pygad_solution, parsed_solution,
    \* save_tabular: position, the tables written (headers and table_data)
    print_pc, cli_print,
    \* whether the user has asked to cancel the search
    cancel_requested,
    \* db/database.py: Database.__is_initialized, self.__connection_pool, the
    \* database file, the handlers registered with atexit, the connections
    \* yielded to with blocks (innermost last), the last call and what it
    \* raised, the number of calls of initialize
    is_initialized, connection_pool, db_file, exit_handlers, held, db_op,
    db_raised, initialize_calls,
    \* sqlite3: per connection whether a transaction is open and the image of
    \* the table it has written, the committed rows of the table; the DAO
    \* call under way and its argument
    in_transaction, pending, table_rows, dao_pc, dao_arg,
    \* main and genetic_algorithm
    pc, run_no, generations, num_generations, stream, rng, population,
    last_generation_fitness, generations_completed, parents, offspring, ret,
    \* history of the runs
    trace, first_trace, first_ret, n_evaluations

storeVars == <<term, events_by_id, dates_by_id, rooms_by_id, priority_rows,
               dislike_rows>>
problemVars == <<lessons, date_x_room, employee_dislikes_date>>
evalVars == <<solution, eval_pc, eval_k, fitness, employee_planned_at_date,
              date_x_students, hits_employee, hits_student, eval_result,
              eval_no, first_result>>
gaVars == <<pc, run_no, generations, num_generations, stream, rng, population,
            last_generation_fitness, generations_completed, parents, offspring,
            ret>>
histVars == <<trace, first_trace, first_ret,
              n_evaluations>>
parseVars == <<parse_pc, pygad_solution, parsed_solution>>
dbVars == <<is_initialized, connection_pool, db_file, exit_handlers, held, db_op,
            db_raised, initialize_calls>>
daoVars == <<in_transaction, pending, table_rows, dao_pc, dao_arg>>
printVars == <<print_pc, cli_print>>
envVars == <<cancel_requested>>
programVars == <<storeVars, problemVars, evalVars, parseVars, printVars, envVars,
                 gaVars, histVars>>
vars == <<programVars, dbVars, daoVars>>

(***************************************************************************)
(* Domain values of the store.                                             *)
(***************************************************************************)
Montag == [abbreviation |-> "MO", name |-> "Montag"]
Dienstag == [abbreviation |-> "DI", name |-> "Dienstag"]

TermNames == {"Sommer", "Winter"}

\* Date d: odd ids lie on Montag, even ids on Dienstag; one time slot per
\* pair of consecutive ids, so (day, time_slot) is unique per date.
DateOf(d) ==
    [day |-> IF d % 2 = 1 THEN Montag ELSE Dienstag, time_slot |-> (d + 1) \div 2]

\* Room r with its ParticipantSize (compared by ordinal) and RoomType.
RoomOf(r) ==
    [name |-> r,
     participant_size |-> [ordinal |-> ((r \div 2) % 2) + 1],
     room_type |-> [name |-> (((r - 1) \div 2) % 2) + 1]]

Event(name, employees, parts, blocks, termName, ordinal, roomType, days) ==
    [name |-> name, employee_ids |-> employees,
     participants |-> parts, weekly_blocks |-> blocks,
     term |-> [name |-> termName],
     participant_size |-> [ordinal |-> ordinal],
     room_type |-> [name |-> roomType],
     disallowed_days |-> days]

\* participants: insertion-ordered dict course_id -> list of semester ids,
\* kept as a sequence of <<course_id, <<semester ids>>>> items.
EventPool ==
    << Event("A", <<1>>, << <<1, <<1>>>> >>, 2, "Sommer", 1, 1, <<>>),
       Event("B", <<1, 2>>, <<>>, 1, "Sommer", 2, 1, <<Montag>>),
       Event("C", <<>>, << <<1, <<1, 2>>>>, <<2, <<1>>>> >>, 1, "Sommer", 1, 2,
             <<>>),
       Event("D", <<2>>, << <<1, <<1>>>> >>, 1, "Winter", 1, 1, <<Dienstag>>),
       Event("E", <<1>>, << <<2, <<1>>>> >>, 0, "Sommer", 1, 1, <<>>) >>

\* the rows of the event table: up to MaxEvents events of the pool, by id
EventStores ==
    { [i \in 1..Cardinality(S) |->
          EventPool[CHOOSE x \in S : Cardinality({ y \in S : y < x }) = i - 1]] :
        S \in { T \in SUBSET (1..Len(EventPool)) : Cardinality(T) <= MaxEvents } }

\* Rows of the priority table (id = position).
PriorityRowOptions == { <<50, 100, 1>>, <<0 - 50, 100, 1>>, <<50, 101, 1>> }

\* Rows of employee_dislikes_date: (employee_id, date_id) -> priority_id.
DislikeRowOptions ==
    { <<>>,
      [k \in {<<1, 1>>} |-> 1],
      [k \in {<<1, 1>>, <<2, 2>>} |-> IF k = <<1, 1>> THEN 2 ELSE 3],
      [k \in {<<2, 1>>, <<2, 2>>} |-> IF k = <<2, 1>> THEN 1 ELSE 3] }

(***************************************************************************)
(* api/models/priority.py                                                  *)
(***************************************************************************)
\* Priority.__post_init__ without the lower bound.
Priority_post_init_NoMin(value) == ~(value > MAX_VALUE)

\* Priority.__post_init__: TRUE iff the value is accepted (no ValueError).
Priority_post_init(value) == ~((value < MIN_VALUE) \/ (value > MAX_VALUE))

\* the Priority is built from the id of the row instead of its value
get_priorities_by_id_FromId(rows) == [id \in 1..Len(rows) |-> [value |-> id]]

\* api.get_priorities_by_id: id -> Priority; fails if any row is rejected.
get_priorities_by_id(rows) == [id \in 1..Len(rows) |-> [value |-> rows[id]]]

(***************************************************************************)
(* prepare(term)                                                           *)
(***************************************************************************)
\* one copy whatever weekly_blocks says
Repeat_Once(x, n) == [i \in 1..1 |-> x]

\* line 50: for _ in range(event.weekly_blocks)
Repeat(x, n) == [i \in 1..n |-> x]

\* F applied to the value of x, which is computed once
Let(x, F(_)) == CHOOSE y \in { F(v) : v \in {x} } : TRUE

RECURSIVE prepare_lessons(_, _, _)
\* lines 46-51: every event of the term, weekly_blocks times, in id order
prepare_lessons(events, t, id) ==
    IF id > Len(events) THEN <<>>
    ELSE (IF events[id].term.name = t
          THEN Repeat(events[id], events[id].weekly_blocks)
          ELSE <<>>) \o prepare_lessons(events, t, id + 1)

\* every date with the first room only
prepare_date_x_room_FirstRoom(dates, rooms) ==
    [j \in 1..(Len(dates) * Len(rooms)) |->
        LET d == ((j - 1) \div Len(rooms)) + 1
        IN  << <<d, dates[d]>>, <<1, rooms[1]>> >>]

\* lines 52-56: for d in dates.items() for r in rooms.items()
prepare_date_x_room(dates, rooms) ==
    [j \in 1..(Len(dates) * Len(rooms)) |->
        LET d == ((j - 1) \div Len(rooms)) + 1
            r == ((j - 1) % Len(rooms)) + 1
        IN  << <<d, dates[d]>>, <<r, rooms[r]>> >>]

\* a dislike row mapped to the priority after the one it names
prepare_employee_dislikes_date_NextPriority(rows, dislikes) ==
    LET priorities_by_id == get_priorities_by_id(rows)
    IN  [key \in DOMAIN dislikes |->
            priorities_by_id[(dislikes[key] % Len(rows)) + 1]]

\* lines 57-64: (employee_id, date_id) -> Priority
prepare_employee_dislikes_date(rows, dislikes) ==
    LET priorities_by_id == get_priorities_by_id(rows)
    IN  [key \in DOMAIN dislikes |-> priorities_by_id[dislikes[key]]]

(***************************************************************************)
(* fitness_function                                                        *)
(***************************************************************************)
\* the day is never compared
DayDisallowed_Never(event, date) == FALSE

\* line 98: date.day in event.disallowed_days
DayDisallowed(event, date) ==
    \E k \in 1..Len(event.disallowed_days) : event.disallowed_days[k] = date.day

\* the employee counts as planned whatever the date
EmployeeClash_AnyDate(employee_x_date, planned) ==
    \E p \in planned : p[1] = employee_x_date[1]

\* line 103: employee_x_date in employee_planned_at_date
EmployeeClash(employee_x_date, planned) == employee_x_date \in planned

\* the set is overwritten instead of extended
RecordEmployee_Assign(planned, employee_x_date) == {employee_x_date}

\* line 105: employee_planned_at_date.add(employee_x_date)
RecordEmployee(planned, employee_x_date) == planned \cup {employee_x_date}

\* a disliked pair is charged like a hard constraint
DislikePenalty_Hard(employee_x_date, dislikes) ==
    IF employee_x_date \in DOMAIN dislikes THEN HARD_CONSTRAINT ELSE 0

\* lines 107-109: priority.value if the pair is in the dislike table
DislikePenalty(employee_x_date, dislikes) ==
    IF employee_x_date \in DOMAIN dislikes
    THEN dislikes[employee_x_date].value
    ELSE 0

\* a room of the same size counts as too small
RoomTooSmall_OrEqual(event, room) ==
    room.participant_size.ordinal <= event.participant_size.ordinal

\* line 111: room.participant_size < event.participant_size
RoomTooSmall(event, room) ==
    room.participant_size.ordinal < event.participant_size.ordinal

\* the room type is never compared
RoomTypeMismatch_Never(event, room) == FALSE

\* line 114: room.room_type != event.room_type
RoomTypeMismatch(event, room) == room.room_type # event.room_type

\* the semester is left out of the comparison
StudentClash_CourseOnly(date_x_student, recorded) ==
    \E t \in recorded : t[1] = date_x_student[1] /\ t[2] = date_x_student[2]

\* line 123: date_x_student in date_x_students
StudentClash(date_x_student, recorded) == date_x_student \in recorded

\* the triple is never recorded
RecordStudent_Skip(recorded, date_x_student) == recorded

\* line 125: date_x_students.add(date_x_student)
RecordStudent(recorded, date_x_student) == recorded \cup {date_x_student}

RECURSIVE FlattenParticipants(_, _)
\* lines 117-121: [(course_id, semester_id) for ... for ...]
FlattenParticipants(items, k) ==
    IF k > Len(items) THEN <<>>
    ELSE [s \in 1..Len(items[k][2]) |-> <<items[k][1], items[k][2][s]>>]
         \o FlattenParticipants(items, k + 1)

\* The evaluator's locals.  hits_employee and hits_student count the
\* executions of lines 104 and 124 (history, not program state).
EvalStart ==
    [fitness |-> 0, employee_planned_at_date |-> {}, date_x_students |-> {},
     hits_employee |-> 0, hits_student |-> 0]

RECURSIVE EmployeeLoop(_, _, _, _, _)
\* lines 100-109
EmployeeLoop(st0, employee_ids, k, date_id, dislikes) ==
    IF k > Len(employee_ids) THEN st0
    ELSE Let(st0, LAMBDA st :
         LET employee_x_date == <<employee_ids[k], date_id>>
             clash == EmployeeClash(employee_x_date, st.employee_planned_at_date)
         IN  EmployeeLoop(
                 [st EXCEPT
                    !.fitness = @ + (IF clash THEN HARD_CONSTRAINT ELSE 0)
                                  + DislikePenalty(employee_x_date, dislikes),
                    !.hits_employee = @ + (IF clash THEN 1 ELSE 0),
                    !.employee_planned_at_date =
                        RecordEmployee(@, employee_x_date)],
                 employee_ids, k + 1, date_id, dislikes))

RECURSIVE StudentLoop(_, _, _, _)
\* lines 117-125
StudentLoop(st0, pairs, k, date_id) ==
    IF k > Len(pairs) THEN st0
    ELSE Let(st0, LAMBDA st :
         LET date_x_student == <<date_id, pairs[k][1], pairs[k][2]>>
             clash == StudentClash(date_x_student, st.date_x_students)
         IN  StudentLoop(
                 [st EXCEPT
                    !.fitness = @ + (IF clash THEN HARD_CONSTRAINT ELSE 0),
                    !.hits_student = @ + (IF clash THEN 1 ELSE 0),
                    !.date_x_students = RecordStudent(@, date_x_student)],
                 pairs, k + 1, date_id))

\* lines 96-125: the loop body for one (event, date_x_room_id) of the zip
BlockStep(st, event, date_x_room_id, slots, dislikes) ==
    LET slot == slots[date_x_room_id + 1]
        date_id == slot[1][1]
        date == slot[1][2]
        room == slot[2][2]
        s1 == [st EXCEPT !.fitness =
                  @ + (IF DayDisallowed(event, date) THEN HARD_CONSTRAINT ELSE 0)]
        s2 == EmployeeLoop(s1, event.employee_ids, 1, date_id, dislikes)
        s3 == [s2 EXCEPT !.fitness =
                  @ + (IF RoomTooSmall(event, room) THEN HARD_CONSTRAINT ELSE 0)]
        s4 == [s3 EXCEPT !.fitness =
                  @ + (IF RoomTypeMismatch(event, room) THEN HARD_CONSTRAINT ELSE 0)]
    IN  Let(FlattenParticipants(event.participants, 1), LAMBDA pairs :
            StudentLoop(s4, pairs, 1, date_id))

Min(a, b) == IF a < b THEN a ELSE b

RECURSIVE EvalLoop(_, _, _, _, _, _)
\* line 95: for event, date_x_room_id in zip(lessons, solution)
EvalLoop(st, ls, sol, k, slots, dislikes) ==
    IF k > Min(Len(ls), Len(sol)) THEN st
    ELSE EvalLoop(BlockStep(st, ls[k], sol[k], slots, dislikes),
                  ls, sol, k + 1, slots, dislikes)

\* lines 89-126: the value returned for a gene vector
fitness_function(ls, slots, dislikes, sol) ==
    0 - EvalLoop(EvalStart, ls, sol, 1, slots, dislikes).fitness

(***************************************************************************)
(* Chromosomes                                                             *)
(***************************************************************************)
\* spec 4.2: genes in range and pairwise distinct
StructurallyValid(g, numBlocks, numSlots) ==
    /\ Len(g) = numBlocks
    /\ \A i \in 1..Len(g) : g[i] \in 0..(numSlots - 1)
    /\ \A i, j \in 1..Len(g) : i # j => g[i] # g[j]

Chromosomes(numBlocks, numSlots) ==
    { g \in [1..numBlocks -> 0..(numSlots - 1)] :
        \A i, j \in 1..numBlocks : i # j => g[i] # g[j] }

(***************************************************************************)
(* The store: every snapshot the loader accepts.                           *)
(***************************************************************************)
StoreInit ==
    /\ term \in TermNames
    /\ events_by_id \in EventStores
    /\ dates_by_id \in { [d \in 1..n |-> DateOf(d)] : n \in 1..NumDates }
    /\ rooms_by_id \in { [r \in 1..n |-> RoomOf(r)] : n \in 1..NumRooms }
    /\ priority_rows \in
         { rows \in PriorityRowOptions :
             \A id \in 1..Len(rows) : Priority_post_init(rows[id]) }
    /\ dislike_rows \in DislikeRowOptions

(***************************************************************************)
(* Specification of the evaluator: one evaluation of a structurally valid  *)
(* chromosome over a prepared Problem.                                     *)
(***************************************************************************)
\* Database.MAX_CONNECTIONS
MAX_CONNECTIONS == 4

Connections == 1..MAX_CONNECTIONS

\* self.__connection_pool: the attribute does not exist before line 152
\* ("unset"), is None, or is a Queue of connections (first in, first out)
NoPoolAttribute == [is |-> "unset", queue |-> <<>>]
PoolNone == [is |-> "None", queue |-> <<>>]
PoolQueue(q) == [is |-> "Queue", queue |-> q]

\* a connection that has written nothing since its last commit
NoWrites == [wrote |-> FALSE, rows |-> {}]

\* no Database call has been made, no connection has been opened
DBIdle ==
    /\ is_initialized = FALSE
    /\ connection_pool = NoPoolAttribute
    /\ db_file = FALSE
    /\ exit_handlers = 0
    /\ held = <<>>
    /\ db_op = "none"
    /\ db_raised = "none"
    /\ initialize_calls = 0
    /\ in_transaction = [c \in Connections |-> FALSE]
    /\ pending = [c \in Connections |-> NoWrites]
    /\ table_rows = {}
    /\ dao_pc = "idle"
    /\ dao_arg = <<>>

\* the decoder has not been called
ParseIdle ==
    /\ parse_pc = "idle"
    /\ pygad_solution = <<>>
    /\ parsed_solution = <<>>
    /\ print_pc = "idle"
    /\ cli_print = <<>>
    /\ cancel_requested = FALSE

NoRet == [solution |-> <<>>, fitness |-> 0, generations_completed |-> 0]

\* no search is running
GAIdle ==
    /\ pc = "idle"
    /\ run_no = 0
    /\ generations = 0
    /\ num_generations = 0
    /\ stream = 0
    /\ rng = 0
    /\ population = <<>>
    /\ last_generation_fitness = <<>>
    /\ generations_completed = 0
    /\ parents = <<>>
    /\ offspring = <<>>
    /\ ret = NoRet
    /\ trace = <<>>
    /\ first_trace = <<>>
    /\ first_ret = NoRet
    /\ n_evaluations = 0

EvalInit ==
    /\ StoreInit
    /\ GAIdle
    /\ ParseIdle
    /\ DBIdle
    /\ lessons = prepare_lessons(events_by_id, term, 1)
    /\ date_x_room = prepare_date_x_room(dates_by_id, rooms_by_id)
    /\ employee_dislikes_date =
         prepare_employee_dislikes_date(priority_rows, dislike_rows)
    /\ solution \in Chromosomes(Len(lessons), Len(date_x_room))
    /\ eval_pc = "loop"
    /\ eval_k = 1
    /\ fitness = EvalStart.fitness
    /\ employee_planned_at_date = EvalStart.employee_planned_at_date
    /\ date_x_students = EvalStart.date_x_students
    /\ hits_employee = EvalStart.hits_employee
    /\ hits_student = EvalStart.hits_student
    /\ eval_result = 0
    /\ eval_no = 1
    /\ first_result = 0

EvalState ==
    [fitness |-> fitness, employee_planned_at_date |-> employee_planned_at_date,
     date_x_students |-> date_x_students, hits_employee |-> hits_employee,
     hits_student |-> hits_student]

\* one iteration of the loop of line 95
EvalBlock ==
    /\ eval_pc = "loop"
    /\ eval_k <= Min(Len(lessons), Len(solution))
    /\ \E st \in { BlockStep(EvalState, lessons[eval_k], solution[eval_k],
                              date_x_room, employee_dislikes_date) } :
           /\ fitness' = st.fitness
           /\ employee_planned_at_date' = st.employee_planned_at_date
           /\ date_x_students' = st.date_x_students
           /\ hits_employee' = st.hits_employee
           /\ hits_student' = st.hits_student
    /\ eval_k' = eval_k + 1
    /\ UNCHANGED <<envVars, printVars, dbVars, daoVars, storeVars, parseVars, problemVars, solution, eval_pc, eval_result,
                   eval_no, first_result, gaVars, histVars>>

\* line 126: return -fitness
EvalReturn ==
    /\ eval_pc = "loop"
    /\ eval_k > Min(Len(lessons), Len(solution))
    /\ eval_result' = 0 - fitness
    /\ eval_pc' = "done"
    /\ first_result' = (IF eval_no = 1 THEN 0 - fitness ELSE first_result)
    /\ UNCHANGED <<envVars, printVars, dbVars, daoVars, storeVars, parseVars, problemVars, solution, eval_k, fitness,
                   employee_planned_at_date, date_x_students, hits_employee,
                   hits_student, eval_no, gaVars, histVars>>

EvalNext == EvalBlock \/ EvalReturn

SpecEval == EvalInit /\ [][EvalNext]_vars

(***************************************************************************)
(* Specification of repeated evaluations over one Problem, as the search   *)
(* performs them: a chromosome, another one, the first one again.          *)
(***************************************************************************)
Reverse(seq) == [i \in 1..Len(seq) |-> seq[Len(seq) + 1 - i]]

\* the sets of the previous call are kept
EvalEnter_KeepSets(prev) == [prev EXCEPT !.fitness = 0]

\* lines 92-94: the locals at entry, whatever the previous call (prev) left
EvalEnter(prev) == EvalStart

\* the next call of fitness_function (lines 89-94)
EvalAgain ==
    /\ eval_pc = "done"
    /\ eval_no < 3
    /\ eval_no' = eval_no + 1
    /\ solution' = Reverse(solution)
    /\ eval_pc' = "loop"
    /\ eval_k' = 1
    /\ \E st \in { EvalEnter(EvalState) } :
           /\ fitness' = st.fitness
           /\ employee_planned_at_date' = st.employee_planned_at_date
           /\ date_x_students' = st.date_x_students
           /\ hits_employee' = st.hits_employee
           /\ hits_student' = st.hits_student
    /\ UNCHANGED <<envVars, printVars, dbVars, daoVars, storeVars, parseVars, problemVars, eval_result, first_result, gaVars,
                   histVars>>

EvalRepeatNext == EvalNext \/ EvalAgain

SpecEvalRepeat == EvalInit /\ [][EvalRepeatNext]_vars

(***************************************************************************)
(* The search engine configured at genetic_algorithm.py lines 222-248      *)
(* (pygad.GA).  The engine itself is not part of the repository; its        *)
(* operators follow section 4.4 of the specification, its configuration    *)
(* the source.                                                             *)
(***************************************************************************)
\* line 228: allow_duplicate_genes=False
allow_duplicate_genes == FALSE

\* line 245: keep_elitism=1
keep_elitism == 1

\* line 246: random_seed=0
random_seed == 0

\* the budget never stops the run
BudgetExhausted_Never(completed, budget) == FALSE

\* line 232: num_generations=generations
BudgetExhausted(completed, budget) == completed >= budget

\* line 244: stop_criteria="reach_0"
ReachCriterion(fit) == \E i \in 1..Len(fit) : fit[i] >= 0

\* line 222: gene_space = {"low": 0, "high": len(date_x_room)}
GeneSpace(slots) == 0..(Len(slots) - 1)

\* the random stream: a deterministic generator and the draws taken from it
NextRng(r) == (r * 5 + 3) % RngMod
Draw(r, n) == (r \div 8) % n

\* the generator keeps the state it has
SeededRng_Unseeded(cur, s) == cur

\* the constructor seeds the generator with random_seed (line 246)
SeededRng(cur, s) == (random_seed * 37 + s * 101) % RngMod

Range(g) == { g[i] : i \in 1..Len(g) }
Pick(S, i) == CHOOSE x \in S : Cardinality({ y \in S : y < x }) = i

RECURSIVE RandomGenes(_, _, _, _)
\* n genes drawn from the gene space
RandomGenes(n, space, r0, acc0) ==
    Let(<<r0, acc0>>, LAMBDA s :
        LET r == s[1]
            acc == s[2]
        IN  IF Len(acc) = n THEN [v |-> acc, r |-> r]
            ELSE RandomGenes(n, space, NextRng(r),
                             Append(acc, Pick(space, Draw(r, Cardinality(space))))))

RECURSIVE Repair(_, _, _, _)
\* every gene equal to an earlier one is replaced by an unused value of the
\* gene space; it is kept when no unused value is left
Repair(g0, k, space, r0) ==
    Let(<<g0, r0>>, LAMBDA s :
        LET g == s[1]
            r == s[2]
        IN  IF k > Len(g) THEN [v |-> g, r |-> r]
            ELSE IF \E j \in 1..(k - 1) : g[j] = g[k]
                 THEN Let(space \ Range(g), LAMBDA free :
                          IF free = {} THEN Repair(g, k + 1, space, r)
                          ELSE Repair([g EXCEPT ![k] =
                                          Pick(free, Draw(r, Cardinality(free)))],
                                      k + 1, space, NextRng(r)))
                 ELSE Repair(g, k + 1, space, r))

\* duplicates are repaired unless they are allowed
Unique(g, space, r) ==
    IF allow_duplicate_genes THEN [v |-> g, r |-> r] ELSE Repair(g, 1, space, r)

RECURSIVE InitialPopulation(_, _, _, _, _)
\* sol_per_pop random chromosomes without duplicate genes
InitialPopulation(size, n, space, r, acc) ==
    IF Len(acc) = size THEN [v |-> acc, r |-> r]
    ELSE Let(RandomGenes(n, space, r, <<>>), LAMBDA raw :
         Let(Unique(raw.v, space, raw.r), LAMBDA fixed :
             InitialPopulation(size, n, space, fixed.r, Append(acc, fixed.v))))

\* the penalty is handed to the engine where it expects the fitness
PopulationFitness_Penalty(pop, ls, slots, dislikes) ==
    [i \in 1..Len(pop) |-> 0 - fitness_function(ls, slots, dislikes, pop[i])]

\* line 229, fitness_func=fitness_function: the fitness function applied to
\* every individual
PopulationFitness(pop, ls, slots, dislikes) ==
    [i \in 1..Len(pop) |-> fitness_function(ls, slots, dislikes, pop[i])]

\* first index of the best fitness
BestIndex(fit) ==
    CHOOSE i \in 1..Len(fit) :
        /\ \A j \in 1..Len(fit) : fit[j] <= fit[i]
        /\ \A j \in 1..(i - 1) : fit[j] < fit[i]

RECURSIVE Tournament(_, _, _, _)
\* K draws with replacement; the best drawn index wins, ties to the lower
Tournament(fit, k, r0, best0) ==
    Let(<<r0, best0>>, LAMBDA s :
        LET r == s[1]
            best == s[2]
            c == Draw(r, Len(fit)) + 1
            w == IF best = 0 THEN c
                 ELSE IF fit[c] > fit[best] \/ (fit[c] = fit[best] /\ c < best)
                      THEN c ELSE best
        IN  IF k = 0 THEN [v |-> best, r |-> r]
            ELSE Tournament(fit, k - 1, NextRng(r), w))

RECURSIVE SelectParents(_, _, _, _, _)
\* parent_selection_type="tournament", num_parents_mating parents
SelectParents(pop, fit, count, r, acc) ==
    IF Len(acc) = count THEN [v |-> acc, r |-> r]
    ELSE Let(Tournament(fit, TournamentK, r, 0), LAMBDA t :
             SelectParents(pop, fit, count, t.r, Append(acc, pop[t.v])))

RECURSIVE Scatter(_, _, _, _)
\* crossover_type="scattered": every gene from one of the two parents
Scatter(p1, p2, r0, acc0) ==
    Let(<<r0, acc0>>, LAMBDA s :
        LET r == s[1]
            acc == s[2]
            k == Len(acc) + 1
        IN  IF Len(acc) = Len(p1) THEN [v |-> acc, r |-> r]
            ELSE Scatter(p1, p2, NextRng(r),
                         Append(acc, IF Draw(r, 2) = 0 THEN p1[k] ELSE p2[k])))

RECURSIVE Crossover(_, _, _, _, _)
\* children of consecutive parents, each repaired after the crossover
Crossover(ps, count, space, r, acc) ==
    IF Len(acc) = count THEN [v |-> acc, r |-> r]
    ELSE LET k == Len(acc)
         IN  Let(Scatter(ps[(k % Len(ps)) + 1], ps[((k + 1) % Len(ps)) + 1],
                         r, <<>>), LAMBDA raw :
             Let(Unique(raw.v, space, raw.r), LAMBDA fixed :
                 Crossover(ps, count, space, fixed.r, Append(acc, fixed.v))))

\* twice the median of the population's fitness values
RankOf(fit, i) ==
    Cardinality({ j \in 1..Len(fit) :
                    fit[j] < fit[i] \/ (fit[j] = fit[i] /\ j < i) }) + 1
AtRank(fit, k) == fit[CHOOSE i \in 1..Len(fit) : RankOf(fit, i) = k]
MedianTimes2(fit) ==
    AtRank(fit, (Len(fit) + 1) \div 2) + AtRank(fit, (Len(fit) + 2) \div 2)

\* mutation_type="adaptive": the high rate at or below the median
MutationPercent(childFitness, fit) ==
    IF 2 * childFitness <= MedianTimes2(fit)
    THEN MutationPercentHigh
    ELSE MutationPercentLow

RECURSIVE MutateGenes(_, _, _, _, _)
\* every gene is replaced, with the given probability, by an unused value
MutateGenes(g0, k, percent, space, r0) ==
    Let(<<g0, r0>>, LAMBDA s :
        LET g == s[1]
            r == s[2]
            r2 == NextRng(r)
        IN  IF k > Len(g) THEN [v |-> g, r |-> r]
            ELSE IF Draw(r, 100) < percent /\ space \ Range(g) # {}
                 THEN Let(space \ Range(g), LAMBDA free :
                          MutateGenes([g EXCEPT ![k] =
                                          Pick(free, Draw(r2, Cardinality(free)))],
                                      k + 1, percent, space, NextRng(r2)))
                 ELSE MutateGenes(g, k + 1, percent, space, r2))

RECURSIVE Mutation(_, _, _, _, _, _, _, _)
\* all children, each with the rate its own fitness selects
Mutation(children, fit, ls, slots, dislikes, space, r, acc) ==
    IF Len(acc) = Len(children) THEN [v |-> acc, r |-> r]
    ELSE LET c == children[Len(acc) + 1]
         IN  Let(MutationPercent(fitness_function(ls, slots, dislikes, c), fit),
                 LAMBDA percent :
             Let(MutateGenes(c, 1, percent, space, r), LAMBDA m :
             Let(Unique(m.v, space, m.r), LAMBDA fixed :
                 Mutation(children, fit, ls, slots, dislikes, space, fixed.r,
                          Append(acc, fixed.v)))))

RECURSIVE Elite(_, _, _, _)
\* the count best individuals, best first
Elite(pop, fit, count, taken) ==
    IF count = 0 \/ Cardinality(taken) = Len(pop) THEN <<>>
    ELSE LET i == CHOOSE i \in (1..Len(pop)) \ taken :
                     /\ \A j \in (1..Len(pop)) \ taken : fit[j] <= fit[i]
                     /\ \A j \in (1..(i - 1)) \ taken : fit[j] < fit[i]
         IN  <<pop[i]>> \o Elite(pop, fit, count - 1, taken \cup {i})

(***************************************************************************)
(* main and genetic_algorithm                                              *)
(***************************************************************************)
\* the index of the best solution is returned as its fitness
Return_IndexAsFitness(best_solution, completed) ==
    [solution |-> best_solution[1], fitness |-> best_solution[3],
     generations_completed |-> completed]

\* lines 257-261: best_solution[0] (the chromosome that line 258 parses for
\* printing), best_solution[1] and ga_instance.generations_completed
Return(best_solution, completed) ==
    [solution |-> best_solution[1], fitness |-> best_solution[2],
     generations_completed |-> completed]

EvalIdle ==
    /\ solution = <<>>
    /\ eval_pc = "idle"
    /\ eval_k = 0
    /\ fitness = 0
    /\ employee_planned_at_date = {}
    /\ date_x_students = {}
    /\ hits_employee = 0
    /\ hits_student = 0
    /\ eval_result = 0
    /\ eval_no = 0
    /\ first_result = 0

\* main.py lines 308-312: arguments parsed, the store filled
GAInit ==
    /\ StoreInit
    /\ EvalIdle
    /\ ParseIdle
    /\ DBIdle
    /\ lessons = <<>>
    /\ date_x_room = <<>>
    /\ employee_dislikes_date = <<>>
    /\ pc = "call"
    /\ run_no = 1
    /\ generations \in 1..MaxGenerations
    /\ num_generations = 0
    /\ stream \in 0..(NumStreams - 1)
    /\ rng = 1
    /\ population = <<>>
    /\ last_generation_fitness = <<>>
    /\ generations_completed = 0
    /\ parents = <<>>
    /\ offspring = <<>>
    /\ ret = NoRet
    /\ trace = <<>>
    /\ first_trace = <<>>
    /\ first_ret = NoRet
    /\ n_evaluations = 0

\* main.py line 313 / 319 and genetic_algorithm.py line 145: the call and
\* prepare(term)
GAPrepare ==
    /\ pc = "call"
    /\ num_generations' = (IF run_no = 1 THEN 1 ELSE generations)
    /\ lessons' = prepare_lessons(events_by_id, term, 1)
    /\ date_x_room' = prepare_date_x_room(dates_by_id, rooms_by_id)
    /\ employee_dislikes_date' =
         prepare_employee_dislikes_date(priority_rows, dislike_rows)
    /\ population' = <<>>
    /\ last_generation_fitness' = <<>>
    /\ generations_completed' = 0
    /\ parents' = <<>>
    /\ offspring' = <<>>
    /\ ret' = NoRet
    /\ trace' = <<>>
    /\ n_evaluations' = 0
    /\ pc' = "construct"
    /\ UNCHANGED <<envVars, printVars, dbVars, daoVars, storeVars, parseVars, evalVars, run_no, generations, stream, rng,
                   first_trace, first_ret>>

\* lines 222-253: pygad.GA(...) seeds the generator and builds the initial
\* population; it rejects num_genes = 0 with a ValueError
GAConstruct ==
    /\ pc = "construct"
    /\ IF Len(lessons) = 0
       THEN /\ pc' = "error"
            /\ UNCHANGED <<rng, population>>
       ELSE \E init \in { InitialPopulation(PopSize, Len(lessons),
                                             GeneSpace(date_x_room),
                                             SeededRng(rng, stream), <<>>) } :
                /\ population' = init.v
                /\ rng' = init.r
                /\ pc' = "run"
    /\ UNCHANGED <<envVars, printVars, dbVars, daoVars, storeVars, parseVars, problemVars, evalVars, run_no, generations,
                   num_generations, stream, last_generation_fitness,
                   generations_completed, parents, offspring, ret, histVars>>

\* line 255, entry of run(): the initial population is evaluated
GARunStart ==
    /\ pc = "run"
    /\ last_generation_fitness' =
         PopulationFitness(population, lessons, date_x_room,
                           employee_dislikes_date)
    /\ n_evaluations' = n_evaluations + Len(population)
    /\ trace' = <<population>>
    /\ pc' = "select"
    /\ UNCHANGED <<envVars, printVars, dbVars, daoVars, storeVars, parseVars, problemVars, evalVars, run_no, generations,
                   num_generations, stream, rng, population,
                   generations_completed, parents, offspring, ret, first_trace,
                   first_ret>>

\* one generation, step 1: parent selection (the guard on the counter caps
\* the model; a run within its budget never meets it)
GASelect ==
    /\ pc = "select"
    /\ generations_completed <= MaxGenerations
    /\ \E sel \in { SelectParents(population, last_generation_fitness,
                                     NumParents, rng, <<>>) } :
           /\ parents' = sel.v
           /\ rng' = sel.r
    /\ pc' = "crossover"
    /\ UNCHANGED <<envVars, printVars, dbVars, daoVars, storeVars, parseVars, problemVars, evalVars, run_no, generations,
                   num_generations, stream, population, last_generation_fitness,
                   generations_completed, offspring, ret, histVars>>

\* one generation, step 2: crossover and repair
GACrossover ==
    /\ pc = "crossover"
    /\ \E c \in { Crossover(parents, PopSize - keep_elitism,
                             GeneSpace(date_x_room), rng, <<>>) } :
           /\ offspring' = c.v
           /\ rng' = c.r
    /\ pc' = "mutation"
    /\ UNCHANGED <<envVars, printVars, dbVars, daoVars, storeVars, parseVars, problemVars, evalVars, run_no, generations,
                   num_generations, stream, population, last_generation_fitness,
                   generations_completed, parents, ret, histVars>>

\* one generation, step 3: adaptive mutation; the children are evaluated to
\* choose their rate
GAMutation ==
    /\ pc = "mutation"
    /\ \E m \in { Mutation(offspring, last_generation_fitness, lessons,
                            date_x_room, employee_dislikes_date,
                            GeneSpace(date_x_room), rng, <<>>) } :
           /\ offspring' = m.v
           /\ rng' = m.r
    /\ n_evaluations' = n_evaluations + Len(offspring)
    /\ pc' = "update"
    /\ UNCHANGED <<envVars, printVars, dbVars, daoVars, storeVars, parseVars, problemVars, evalVars, run_no, generations,
                   num_generations, stream, population, last_generation_fitness,
                   generations_completed, parents, ret, trace, first_trace,
                   first_ret>>

\* one generation, step 4: the elite and the children form the next
\* population, which is evaluated; then the stop criteria are tested
GAUpdate ==
    /\ pc = "update"
    /\ \E next \in { Elite(population, last_generation_fitness, keep_elitism,
                             {}) \o offspring } :
       \E fit \in { PopulationFitness(next, lessons, date_x_room,
                                      employee_dislikes_date) } :
           /\ population' = next
           /\ last_generation_fitness' = fit
           /\ generations_completed' = generations_completed + 1
           /\ trace' = Append(trace, next)
           /\ n_evaluations' = n_evaluations + Len(next)
           /\ pc' = IF ReachCriterion(fit)
                       \/ BudgetExhausted(generations_completed + 1,
                                          num_generations)
                    THEN "best" ELSE "select"
    /\ UNCHANGED <<envVars, printVars, dbVars, daoVars, storeVars, parseVars, problemVars, evalVars, run_no, generations,
                   num_generations, stream, rng, parents, offspring, ret,
                   first_trace, first_ret>>

\* lines 257-261: best_solution() of the last population and the return
GAReturn ==
    /\ pc = "best"
    /\ \E fit \in { PopulationFitness(population, lessons, date_x_room,
                                      employee_dislikes_date) } :
       \E idx \in { BestIndex(fit) } :
           ret' = Return(<<population[idx], fit[idx], idx - 1>>,
                         generations_completed)
    /\ n_evaluations' = n_evaluations + Len(population)
    /\ pc' = "returned"
    /\ UNCHANGED <<envVars, printVars, dbVars, daoVars, storeVars, parseVars, problemVars, evalVars, run_no, generations,
                   num_generations, stream, rng, population,
                   last_generation_fitness, generations_completed, parents,
                   offspring, trace, first_trace, first_ret>>

\* main.py lines 313-321: after the 1-generation run the full run is called
MainSecondRun ==
    /\ pc = "returned"
    /\ run_no = 1
    /\ first_trace' = trace
    /\ first_ret' = ret
    /\ run_no' = 2
    /\ pc' = "call"
    /\ UNCHANGED <<envVars, printVars, dbVars, daoVars, storeVars, parseVars, problemVars, evalVars, generations,
                   num_generations, stream, rng, population,
                   last_generation_fitness, generations_completed, parents,
                   offspring, ret, trace, n_evaluations>>

\* main.py lines 322-326: the result is printed and saved
MainExit ==
    /\ pc = "returned"
    /\ run_no = 2
    /\ pc' = "done"
    /\ UNCHANGED <<envVars, printVars, dbVars, daoVars, storeVars, parseVars, problemVars, evalVars, run_no, generations,
                   num_generations, stream, rng, population,
                   last_generation_fitness, generations_completed, parents,
                   offspring, ret, histVars>>

GANext ==
    \/ GAPrepare
    \/ GAConstruct
    \/ GARunStart
    \/ GASelect
    \/ GACrossover
    \/ GAMutation
    \/ GAUpdate
    \/ GAReturn
    \/ MainSecondRun
    \/ MainExit

SpecGA == GAInit /\ [][GANext]_vars

\* the user asks to cancel while the search runs; genetic_algorithm has no
\* flag that records the request and reads none (lines 222-261)
RequestCancel ==
    /\ pc \in {"run", "select", "crossover", "mutation", "update"}
    /\ ~cancel_requested
    /\ cancel_requested' = TRUE
    /\ UNCHANGED <<printVars, dbVars, daoVars, storeVars, parseVars,
                   problemVars, evalVars, gaVars, histVars>>

GACancelNext == GANext \/ RequestCancel

SpecGACancel == GAInit /\ [][GACancelNext]_vars

\* the driver is a sequential program: it takes its next step when it has one
SpecGAFair == SpecGA /\ WF_vars(GANext)

(***************************************************************************)
(* The assignment a gene vector denotes, block by block.                   *)
(***************************************************************************)
Blocks == 1..Len(lessons)
SlotOfBlock(i) == date_x_room[solution[i] + 1]
DateIdOfBlock(i) == SlotOfBlock(i)[1][1]
DayOfBlock(i) == SlotOfBlock(i)[1][2].day
RoomOfBlock(i) == SlotOfBlock(i)[2][2]
EmployeesOfBlock(i) ==
    { lessons[i].employee_ids[k] : k \in 1..Len(lessons[i].employee_ids) }
GroupsOfBlock(i) ==
    LET pairs == FlattenParticipants(lessons[i].participants, 1)
    IN  { pairs[k] : k \in 1..Len(pairs) }
DisallowedDaysOfBlock(i) ==
    { lessons[i].disallowed_days[k] : k \in 1..Len(lessons[i].disallowed_days) }

EvalDone == eval_pc = "done"
Penalty == 0 - eval_result

NoBlockOnDisallowedDay ==
    \A i \in Blocks : DayOfBlock(i) \notin DisallowedDaysOfBlock(i)
NoEmployeeDoubleBooked ==
    \A i, j \in Blocks :
        (i # j /\ EmployeesOfBlock(i) \cap EmployeesOfBlock(j) # {})
            => DateIdOfBlock(i) # DateIdOfBlock(j)
NoRoomUndersized ==
    \A i \in Blocks :
        RoomOfBlock(i).participant_size.ordinal
            >= lessons[i].participant_size.ordinal
AllRoomTypesMatch ==
    \A i \in Blocks : RoomOfBlock(i).room_type = lessons[i].room_type
NoGroupDoubleBooked ==
    \A i, j \in Blocks :
        (i # j /\ GroupsOfBlock(i) \cap GroupsOfBlock(j) # {})
            => DateIdOfBlock(i) # DateIdOfBlock(j)
NoDislikedPairUsed ==
    \A i \in Blocks : \A e \in EmployeesOfBlock(i) :
        <<e, DateIdOfBlock(i)>> \notin DOMAIN employee_dislikes_date

(***************************************************************************)
(* C1: for every structurally valid chromosome, penalty 0 implies that no  *)
(* block lies on a disallowed day, no employee has two blocks on one date, *)
(* no room is undersized, every room type matches, no (course, semester)   *)
(* group has two blocks on one date and no disliked (employee, date) pair  *)
(* is used.                                                                *)
(***************************************************************************)
C1_ZeroPenaltyIsFeasible ==
    (EvalDone /\ eval_result = 0) =>
        /\ NoBlockOnDisallowedDay
        /\ NoEmployeeDoubleBooked
        /\ NoRoomUndersized
        /\ AllRoomTypesMatch
        /\ NoGroupDoubleBooked
        /\ NoDislikedPairUsed

\* a finished evaluation with penalty 0 of several blocks, two of which share
\* an employee and a student group, over a non-empty dislike table
C1_Witness ==
    /\ EvalDone
    /\ eval_result = 0
    /\ DOMAIN employee_dislikes_date # {}
    /\ \E i, j \in Blocks :
          /\ i # j
          /\ EmployeesOfBlock(i) \cap EmployeesOfBlock(j) # {}
          /\ GroupsOfBlock(i) \cap GroupsOfBlock(j) # {}

(***************************************************************************)
(* C2: with priority values in 1..100 the penalty is a non-negative        *)
(* integer at every point of an evaluation, and the value returned by      *)
(* fitness_function is -penalty, hence <= 0.                               *)
(***************************************************************************)
C2_PenaltyNonNegative ==
    /\ fitness \in Nat
    /\ EvalDone => (eval_result = 0 - fitness /\ eval_result <= 0)
    /\ fitness_function(lessons, date_x_room, employee_dislikes_date, solution)
         <= 0

\* a finished evaluation whose penalty consists of a dislike weight only
C2_Witness ==
    /\ EvalDone
    /\ eval_result < 0
    /\ eval_result > 0 - HARD_CONSTRAINT
    /\ ~NoDislikedPairUsed

(***************************************************************************)
(* Employee and student clashes, counted two ways.                         *)
(***************************************************************************)
EmployeeIncidences == { <<i, e>> \in Blocks \X {1, 2} : e \in EmployeesOfBlock(i) }
EmployeeDatesUsed == { <<ie[2], DateIdOfBlock(ie[1])>> : ie \in EmployeeIncidences }
\* (unordered pair of blocks, employee) sharing a date
EmployeeClashPairs ==
    { t \in Blocks \X Blocks \X {1, 2} :
        /\ t[1] < t[2]
        /\ t[3] \in EmployeesOfBlock(t[1]) \cap EmployeesOfBlock(t[2])
        /\ DateIdOfBlock(t[1]) = DateIdOfBlock(t[2]) }

AllGroups == UNION { GroupsOfBlock(i) : i \in Blocks }
GroupIncidences == { <<i, g>> \in Blocks \X AllGroups : g \in GroupsOfBlock(i) }
GroupDatesUsed == { <<DateIdOfBlock(ig[1]), ig[2]>> : ig \in GroupIncidences }
GroupClashPairs ==
    { t \in Blocks \X Blocks \X AllGroups :
        /\ t[1] < t[2]
        /\ t[3] \in GroupsOfBlock(t[1]) \cap GroupsOfBlock(t[2])
        /\ DateIdOfBlock(t[1]) = DateIdOfBlock(t[2]) }

\* number of blocks of employee e on date d
BlocksOfEmployeeOn(e, d) ==
    Cardinality({ i \in Blocks : e \in EmployeesOfBlock(i) /\ DateIdOfBlock(i) = d })

(***************************************************************************)
(* C9 as stated: HARD is added once per unordered pair of blocks sharing   *)
(* an employee (or a (course, semester) group) and a date, so k blocks of  *)
(* one employee on one date add HARD times the number of pairs among them. *)
(***************************************************************************)
C9_Original_OncePerPair ==
    EvalDone =>
        /\ hits_employee = Cardinality(EmployeeClashPairs)
        /\ hits_student = Cardinality(GroupClashPairs)

(***************************************************************************)
(* C9 amended: HARD is added once for every block after the first that     *)
(* uses an (employee, date) pair or a (date, course, semester) triple, so  *)
(* k >= 1 blocks of one employee on one date add HARD * (k - 1); this is   *)
(* once per pair exactly when k <= 2.                                      *)
(***************************************************************************)
C9_OncePerLaterBlock ==
    EvalDone =>
        /\ hits_employee =
             Cardinality(EmployeeIncidences) - Cardinality(EmployeeDatesUsed)
        /\ hits_student =
             Cardinality(GroupIncidences) - Cardinality(GroupDatesUsed)
        /\ (\A e \in {1, 2}, d \in 1..Len(dates_by_id) :
               BlocksOfEmployeeOn(e, d) <= 2)
             => (/\ hits_employee = Cardinality(EmployeeClashPairs))

\* three blocks of one employee on one date, evaluated to the end
C9_Witness ==
    /\ EvalDone
    /\ \E e \in {1, 2}, d \in 1..Len(dates_by_id) : BlocksOfEmployeeOn(e, d) = 3
    /\ hits_employee = 2

(***************************************************************************)
(* C10: the penalty does not depend on the traversal order: permuting      *)
(* BLOCKS and the gene vector by the same permutation leaves the value of  *)
(* the evaluator unchanged.                                                *)
(***************************************************************************)
BlockOrders(n) ==
    { p \in [1..n -> 1..n] : \A i, j \in 1..n : i # j => p[i] # p[j] }
Permute(seq, p) == [i \in 1..Len(seq) |-> seq[p[i]]]

C10_OrderIndependent ==
    EvalDone =>
        \A p \in BlockOrders(Len(lessons)) :
            fitness_function(Permute(lessons, p), date_x_room,
                             employee_dislikes_date, Permute(solution, p))
              = eval_result

\* at least three blocks with a clash that only some orders meet first
C10_Witness ==
    /\ EvalDone
    /\ Len(lessons) >= 3
    /\ hits_employee >= 1
    /\ hits_student >= 1
    /\ \E i, j \in Blocks : lessons[i] # lessons[j]

(***************************************************************************)
(* Populations of the running search.                                      *)
(***************************************************************************)
PenaltyOf(g) ==
    0 - fitness_function(lessons, date_x_room, employee_dislikes_date, g)
BestPenalty(pop) ==
    LET ps == { PenaltyOf(pop[i]) : i \in 1..Len(pop) }
    IN  CHOOSE p \in ps : \A q \in ps : p <= q
HasZeroPenalty(pop) == \E i \in 1..Len(pop) : PenaltyOf(pop[i]) = 0
Prepared == pc \notin {"idle", "call"}
InGeneration == pc \in {"select", "crossover", "mutation", "update"}
Stopped == pc \in {"best", "returned", "done"}
ValidChromosome(g) == StructurallyValid(g, Len(lessons), Len(date_x_room))

(***************************************************************************)
(* C3: in every generation (the initial population, the children after     *)
(* crossover and repair, the children after mutation, the elite copy)      *)
(* every chromosome has len(BLOCKS) genes, all within [0, len(SLOTS)) and  *)
(* pairwise distinct.                                                      *)
(***************************************************************************)
C3_StructuralValidity ==
    Prepared =>
        /\ \A i \in 1..Len(population) : ValidChromosome(population[i])
        /\ \A i \in 1..Len(offspring) : ValidChromosome(offspring[i])
        /\ \A n \in 1..Len(trace) : \A i \in 1..Len(trace[n]) :
              ValidChromosome(trace[n][i])

(***************************************************************************)
(* C4: with more blocks than slots the solver reports an error before the  *)
(* search begins: no population is created, no generation is run and no    *)
(* chromosome is evaluated.                                                *)
(***************************************************************************)
C4_InfeasibleRejected ==
    (Prepared /\ Len(lessons) > Len(date_x_room)) =>
        /\ pc \in {"construct", "error"}
        /\ population = <<>>
        /\ generations_completed = 0
        /\ n_evaluations = 0

(***************************************************************************)
(* C5: elitism is monotone: the best penalty of the population of          *)
(* generation n + 1 is at most the best penalty of generation n.           *)
(***************************************************************************)
C5_ElitismMonotone ==
    Len(trace) >= 2 =>
        BestPenalty(trace[Len(trace)]) <= BestPenalty(trace[Len(trace) - 1])

\* two generations, one that improves the best penalty, and a child that is
\* worse than the individual carried over
C5_Witness ==
    /\ Len(trace) >= 3
    /\ \E n \in 1..(Len(trace) - 1) :
          BestPenalty(trace[n + 1]) < BestPenalty(trace[n])
    /\ \E n \in 1..(Len(trace) - 1) : \E i \in 1..Len(trace[n + 1]) :
          PenaltyOf(trace[n + 1][i]) > BestPenalty(trace[n])

C6_StopState ==
    /\ generations_completed <= num_generations
    /\ (InGeneration /\ generations_completed >= 1) =>
          /\ generations_completed < num_generations
          /\ ~HasZeroPenalty(population)
    /\ Stopped =>
          /\ generations_completed >= 1
          /\ generations_completed = num_generations \/ HasZeroPenalty(population)
    /\ (pc = "returned" /\ ret.generations_completed < num_generations)
          => ret.fitness = 0

C8_Deterministic ==
    run_no = 2 =>
        /\ \A n \in 1..Min(Len(trace), Len(first_trace)) :
              trace[n] = first_trace[n]
        /\ (pc \in {"returned", "done"} /\ num_generations = 1) =>
              (ret = first_ret /\ trace = first_trace)

\* the full run has passed its first generation, which changed the
\* population, and goes on
C8_Witness ==
    /\ run_no = 2
    /\ Len(trace) >= 3
    /\ Len(first_trace) = 2
    /\ trace[2] # trace[1]
    /\ trace[3] # trace[2]
    /\ first_ret.generations_completed = 1

(***************************************************************************)
(* The parts of the penalty of the blocks evaluated so far.                *)
(***************************************************************************)
RECURSIVE SumBlocks(_, _)
\* f[1] + ... + f[n]
SumBlocks(n, f) == IF n = 0 THEN 0 ELSE f[n] + SumBlocks(n - 1, f)

BlocksDone == 1..(eval_k - 1)

DayPenalty(i) ==
    IF DayOfBlock(i) \in DisallowedDaysOfBlock(i) THEN 100 ELSE 0
CapacityPenalty(i) ==
    IF RoomOfBlock(i).participant_size.ordinal
         < lessons[i].participant_size.ordinal
    THEN 100 ELSE 0
RoomTypePenalty(i) ==
    IF RoomOfBlock(i).room_type.name # lessons[i].room_type.name THEN 100 ELSE 0
LocalPenalty(i) == DayPenalty(i) + CapacityPenalty(i) + RoomTypePenalty(i)

\* the weight the store gives to the pair (employee e, date d), 0 if none
DislikeWeight(e, d) ==
    IF <<e, d>> \in DOMAIN dislike_rows
    THEN priority_rows[dislike_rows[<<e, d>>]]
    ELSE 0
DislikeOfBlock(i) ==
    LET w(e) == IF e \in EmployeesOfBlock(i)
                THEN DislikeWeight(e, DateIdOfBlock(i)) ELSE 0
    IN  w(1) + w(2)

(***************************************************************************)
(* C11: the three slot-local checks are independent and each adds exactly  *)
(* 100 per block: 100 if the day of the block's slot is a disallowed day   *)
(* of its event, 100 if the room's ordinal is strictly less than the       *)
(* event's, 100 if the room type differs; what they add depends only on    *)
(* the block's event and slot, so at every point of an evaluation the      *)
(* penalty less the clash and dislike parts is the sum of the three over   *)
(* the blocks evaluated so far.                                            *)
(***************************************************************************)
C11_SlotLocalChecks ==
    fitness - HARD_CONSTRAINT * (hits_employee + hits_student)
            - SumBlocks(eval_k - 1, [i \in Blocks |-> DislikeOfBlock(i)])
        = SumBlocks(eval_k - 1, [i \in Blocks |-> LocalPenalty(i)])

\* a finished evaluation in which one block fails the day and the capacity
\* check, another one only the room type check, and a room of equal ordinal
\* adds nothing
C11_Witness ==
    /\ EvalDone
    /\ \E i \in Blocks : DayPenalty(i) + CapacityPenalty(i) = 200
    /\ \E i \in Blocks : LocalPenalty(i) = 100 /\ RoomTypePenalty(i) = 100
    /\ \E i \in Blocks :
          /\ RoomOfBlock(i).participant_size.ordinal
                = lessons[i].participant_size.ordinal
          /\ CapacityPenalty(i) = 0

(***************************************************************************)
(* C12: for each employee of the event of block i the evaluator adds HARD  *)
(* exactly when the pair (employee_id, date_id) was recorded by an earlier *)
(* block of the same evaluation, never because of block i itself, and      *)
(* then records the pair; blocks of one employee on different dates add    *)
(* nothing.                                                                *)
(***************************************************************************)
\* the employees of block i that an earlier block has put on the same date
EmployeesSeenBefore(i) ==
    { e \in EmployeesOfBlock(i) :
        \E j \in 1..(i - 1) :
            /\ e \in EmployeesOfBlock(j)
            /\ DateIdOfBlock(j) = DateIdOfBlock(i) }

C12_EmployeeDoubleBooking ==
    /\ hits_employee =
          SumBlocks(eval_k - 1,
                    [i \in Blocks |-> Cardinality(EmployeesSeenBefore(i))])
    /\ employee_planned_at_date =
          UNION { { <<e, DateIdOfBlock(i)>> : e \in EmployeesOfBlock(i) } :
                    i \in BlocksDone }
    /\ (\A i, j \in BlocksDone :
            (i # j /\ EmployeesOfBlock(i) \cap EmployeesOfBlock(j) # {})
                => DateIdOfBlock(i) # DateIdOfBlock(j))
          => hits_employee = 0

\* a finished evaluation with two blocks of one employee on one date, which
\* add HARD once, a block of the same employee on another date and a block
\* of two employees
C12_Witness ==
    /\ EvalDone
    /\ hits_employee = 1
    /\ \E i, j \in Blocks :
          /\ i < j
          /\ EmployeesSeenBefore(j) = {1}
          /\ DateIdOfBlock(i) = DateIdOfBlock(j)
    /\ \E i, j \in Blocks :
          /\ 1 \in EmployeesOfBlock(i) \cap EmployeesOfBlock(j)
          /\ DateIdOfBlock(i) # DateIdOfBlock(j)
    /\ \E i \in Blocks : Cardinality(EmployeesOfBlock(i)) = 2

(***************************************************************************)
(* C13: for every block and every employee of its event the evaluator      *)
(* adds the value (1..100) of the priority that the dislike row of         *)
(* (employee_id, date_id) references, once per block that uses the pair,   *)
(* and nothing when the pair has no row; a block of an event without       *)
(* employees adds nothing from the double-booking and dislike checks.      *)
(***************************************************************************)
RECURSIVE SumSet(_, _)
\* the sum of f[x] over x in S
SumSet(S, f) ==
    IF S = {} THEN 0
    ELSE LET x == CHOOSE y \in S : TRUE
         IN  f[x] + SumSet(S \ {x}, f)

\* the dislike rows, each weighted by the number of blocks that use its pair
DislikeTotal ==
    SumSet(DOMAIN dislike_rows,
           [key \in DOMAIN dislike_rows |->
               priority_rows[dislike_rows[key]]
                 * BlocksOfEmployeeOn(key[1], key[2])])

C13_StateOk ==
    /\ DOMAIN employee_dislikes_date = DOMAIN dislike_rows
    /\ \A key \in DOMAIN dislike_rows :
          /\ employee_dislikes_date[key].value = priority_rows[dislike_rows[key]]
          /\ employee_dislikes_date[key].value \in 1..100
    /\ EvalDone =>
          Penalty = DislikeTotal
                      + SumBlocks(Len(lessons), [i \in Blocks |-> LocalPenalty(i)])
                      + HARD_CONSTRAINT * (hits_employee + hits_student)

C13_StepOk ==
    (eval_k' = eval_k + 1 /\ Len(lessons[eval_k].employee_ids) = 0) =>
        /\ hits_employee' = hits_employee
        /\ employee_planned_at_date' = employee_planned_at_date
        /\ fitness' - fitness =
              LocalPenalty(eval_k) + HARD_CONSTRAINT * (hits_student' - hits_student)

C13_EmployeeDislike == []C13_StateOk /\ [][C13_StepOk]_vars

\* a finished evaluation in which one disliked pair is used by two blocks
\* and an event without employees has a block
C13_Witness ==
    /\ EvalDone
    /\ \E key \in DOMAIN dislike_rows : BlocksOfEmployeeOn(key[1], key[2]) = 2
    /\ \E i \in Blocks : EmployeesOfBlock(i) = {}
    /\ Penalty >= 2 * 50

(***************************************************************************)
(* C14: for each (course_id, semester_id) of the participants of the       *)
(* event of a block the evaluator adds HARD exactly when                   *)
(* (date_id, course_id, semester_id) was recorded by an earlier block, and *)
(* then records it; blocks in different rooms on one date clash, blocks on *)
(* different dates never do, and an event with empty participants adds     *)
(* nothing.                                                                *)
(***************************************************************************)
\* the groups of block i that an earlier block has put on the same date
GroupsSeenBefore(i) ==
    { g \in GroupsOfBlock(i) :
        \E j \in 1..(i - 1) :
            /\ g \in GroupsOfBlock(j)
            /\ DateIdOfBlock(j) = DateIdOfBlock(i) }

C14_StateOk ==
    /\ hits_student =
          SumBlocks(eval_k - 1,
                    [i \in Blocks |-> Cardinality(GroupsSeenBefore(i))])
    /\ date_x_students =
          UNION { { <<DateIdOfBlock(i), g[1], g[2]>> : g \in GroupsOfBlock(i) } :
                    i \in BlocksDone }
    /\ (\A i, j \in BlocksDone :
            (i # j /\ GroupsOfBlock(i) \cap GroupsOfBlock(j) # {})
                => DateIdOfBlock(i) # DateIdOfBlock(j))
          => hits_student = 0

C14_StepOk ==
    (eval_k' = eval_k + 1 /\ lessons[eval_k].participants = <<>>) =>
        /\ hits_student' = hits_student
        /\ date_x_students' = date_x_students

C14_StudentDoubleBooking == []C14_StateOk /\ [][C14_StepOk]_vars

\* a finished evaluation with two blocks of one group on one date in
\* different rooms, which add HARD once, a block of an event of several
\* groups and nothing added for the groups met only once
C14_Witness ==
    /\ EvalDone
    /\ hits_student = 1
    /\ \E i, j \in Blocks :
          /\ i < j
          /\ GroupsSeenBefore(j) # {}
          /\ DateIdOfBlock(i) = DateIdOfBlock(j)
          /\ RoomOfBlock(i) # RoomOfBlock(j)
    /\ \E i \in Blocks : Cardinality(GroupsOfBlock(i)) = 3

(***************************************************************************)
(* C15: the evaluator is pure: an evaluation leaves lessons, date_x_room,  *)
(* the dislike table and the gene vector unchanged, its two sets start     *)
(* empty in every evaluation, and evaluating the same chromosome again     *)
(* after another evaluation returns the same penalty.                      *)
(***************************************************************************)
C15_StateOk ==
    /\ (eval_pc = "loop" /\ eval_k = 1) =>
          (employee_planned_at_date = {} /\ date_x_students = {} /\ fitness = 0)
    /\ (EvalDone /\ eval_no = 3) => eval_result = first_result
    /\ EvalDone =>
          eval_result = fitness_function(lessons, date_x_room,
                                         employee_dislikes_date, solution)

C15_StepOk ==
    /\ UNCHANGED <<lessons, date_x_room, employee_dislikes_date>>
    /\ eval_pc = "loop" => solution' = solution

C15_EvaluatorPure == []C15_StateOk /\ [][C15_StepOk]_vars

\* the third evaluation, of the first chromosome again, has returned a
\* penalty with clashes, and the evaluation in between returned another one
C15_Witness ==
    /\ EvalDone
    /\ eval_no = 3
    /\ hits_employee >= 1
    /\ hits_student >= 1
    /\ eval_result = first_result
    /\ eval_result # fitness_function(lessons, date_x_room,
                                      employee_dislikes_date, Reverse(solution))

(***************************************************************************)
(* C16: lessons holds every event of the requested term exactly            *)
(* weekly_blocks times (none for weekly_blocks = 0), holds no event of the *)
(* other term, keeps the blocks of one event adjacent and the events in    *)
(* event order, so its length is the sum of weekly_blocks over the events  *)
(* of the term.                                                            *)
(***************************************************************************)
EventIds == 1..Len(events_by_id)
EventsOfTerm == { id \in EventIds : events_by_id[id].term.name = term }
BlocksOfEvent(id) == { i \in Blocks : lessons[i] = events_by_id[id] }

C16_BlocksOfTerm ==
    /\ \A id \in EventsOfTerm :
          Cardinality(BlocksOfEvent(id)) = events_by_id[id].weekly_blocks
    /\ \A i \in Blocks :
          /\ lessons[i].term.name = term
          /\ \E id \in EventsOfTerm : i \in BlocksOfEvent(id)
    /\ \A id \in EventsOfTerm : \A i, j \in BlocksOfEvent(id) :
          \A k \in Blocks : (i < k /\ k < j) => k \in BlocksOfEvent(id)
    /\ \A id1, id2 \in EventsOfTerm : id1 < id2 =>
          \A i \in BlocksOfEvent(id1), j \in BlocksOfEvent(id2) : i < j
    /\ Len(lessons) =
          SumSet(EventsOfTerm,
                 [id \in EventIds |-> events_by_id[id].weekly_blocks])

\* the store holds an event of the requested term with two weekly blocks
\* and an event of the other term, and the two blocks have been evaluated
C16_Witness ==
    /\ EvalDone
    /\ Len(lessons) = 2
    /\ \E id \in EventsOfTerm : events_by_id[id].weekly_blocks = 2
    /\ \E id \in EventIds \ EventsOfTerm : events_by_id[id].weekly_blocks > 0

(***************************************************************************)
(* C17: date_x_room lists every (date, room) pair exactly once, by date    *)
(* and then by room, so its length is |dates| * |rooms|, and the blocks of *)
(* a structurally valid chromosome lie on pairwise distinct (date, room)   *)
(* pairs.                                                                  *)
(***************************************************************************)
SlotIds == 1..Len(date_x_room)
SlotKey(j) == <<date_x_room[j][1][1], date_x_room[j][2][1]>>

C17_SlotsAreTheProduct ==
    /\ Len(date_x_room) = Len(dates_by_id) * Len(rooms_by_id)
    /\ \A d \in 1..Len(dates_by_id), r \in 1..Len(rooms_by_id) :
          Cardinality({ j \in SlotIds :
              date_x_room[j] = << <<d, dates_by_id[d]>>, <<r, rooms_by_id[r]>> >> })
            = 1
    /\ \A j, k \in SlotIds : j < k =>
          \/ SlotKey(j)[1] < SlotKey(k)[1]
          \/ SlotKey(j)[1] = SlotKey(k)[1] /\ SlotKey(j)[2] < SlotKey(k)[2]
    /\ StructurallyValid(solution, Len(lessons), Len(date_x_room)) =>
          \A i, j \in Blocks : i # j =>
              SlotKey(solution[i] + 1) # SlotKey(solution[j] + 1)

\* two blocks have been evaluated on one date in different rooms, over all
\* the dates and rooms of the bounds
C17_Witness ==
    /\ EvalDone
    /\ Len(date_x_room) = NumDates * NumRooms
    /\ StructurallyValid(solution, Len(lessons), Len(date_x_room))
    /\ \E i, j \in Blocks :
          /\ i # j
          /\ SlotKey(solution[i] + 1)[1] = SlotKey(solution[j] + 1)[1]
          /\ SlotKey(solution[i] + 1)[2] # SlotKey(solution[j] + 1)[2]

(***************************************************************************)
(* C18: when the requested term has no blocks, the solver raises no error  *)
(* and returns the empty assignment with penalty 0 and zero generations    *)
(* completed.                                                              *)
(***************************************************************************)
C18_EmptyTermReturnsEmpty ==
    (Prepared /\ Len(lessons) = 0) =>
        /\ pc # "error"
        /\ pc = "returned" =>
              ret = [solution |-> <<>>, fitness |-> 0,
                     generations_completed |-> 0]

(***************************************************************************)
(* C19: scenario S5: one employee holds two blocks, there are two dates,   *)
(* and the employee dislikes date 1 with weight 50.  Every structurally    *)
(* valid chromosome has penalty at least 50; a chromosome has penalty      *)
(* exactly 50 only if one block lies on date 1 and the other on date 2;    *)
(* the solver returns such a chromosome with penalty exactly 50.           *)
(***************************************************************************)
S5 ==
    /\ Len(lessons) = 2
    /\ lessons[1] = lessons[2]
    /\ Len(lessons[1].employee_ids) = 1
    /\ Len(dates_by_id) = 2
    /\ DOMAIN dislike_rows = { <<lessons[1].employee_ids[1], 1>> }
    /\ priority_rows[dislike_rows[<<lessons[1].employee_ids[1], 1>>]] = 50

DatesOf(g) == { date_x_room[g[i] + 1][1][1] : i \in 1..Len(g) }

C19_EvaluatorPart ==
    \A g \in Chromosomes(Len(lessons), Len(date_x_room)) :
        /\ PenaltyOf(g) >= 50
        /\ PenaltyOf(g) = 50 => DatesOf(g) = {1, 2}

\* with one room there is one slot per date and no other place for a block
C19_SolverPart ==
    (pc = "returned" /\ Len(rooms_by_id) = 1) =>
        /\ ret.fitness = 0 - 50
        /\ ValidChromosome(ret.solution)
        /\ DatesOf(ret.solution) = {1, 2}

CourseAbbreviation(course_id) == IF course_id = 1 THEN "B_Inf" ELSE "B_WInf"

\* semesters_by_id[semester_id].value
SemesterValue(semester_id) == semester_id

\* start and end of a time slot in minutes of the day (start_time and
\* end_time are UNIQUE in table time_slot)
StartOf(time_slot) == 480 + 90 * (time_slot - 1)
EndOf(time_slot) == StartOf(time_slot) + 75

Pad2(n) == IF n < 10 THEN "0" \o ToString(n) ELSE ToString(n)

\* strftime("%H:%M")
HHMM(minutes) == Pad2(minutes \div 60) \o ":" \o Pad2(minutes % 60)

\* lines 197-201
TimeOf(time_slot) == HHMM(StartOf(time_slot)) \o " - " \o HHMM(EndOf(time_slot))

RECURSIVE FreshEventName(_, _, _)
\* lines 207-211: the name, or the first of "name (1)", "name (2)", ... that
\* is not yet a key at this day and time
FreshEventName(name, keys, count) ==
    LET event_name == IF count = 0 THEN name
                      ELSE name \o " (" \o ToString(count) \o ")"
    IN  IF event_name \in keys THEN FreshEventName(name, keys, count + 1)
        ELSE event_name

\* lines 213-218: course abbreviation -> list of semester values
ParticipantsForPrint(event) ==
    [abbreviation \in
        { CourseAbbreviation(event.participants[n][1]) :
            n \in 1..Len(event.participants) } |->
        LET n == CHOOSE m \in 1..Len(event.participants) :
                     CourseAbbreviation(event.participants[m][1]) = abbreviation
        IN  [k \in 1..Len(event.participants[n][2]) |->
                SemesterValue(event.participants[n][2][k])]]

\* lines 193-218: one iteration of the loop over the genes
ParseBlock(result, event, slot) ==
    LET day == slot[1][2].day
        time == TimeOf(slot[1][2].time_slot)
        room == slot[2][2]
        r1 == IF day.name \in DOMAIN result THEN result
              ELSE result @@ (day.name :> <<>>)
        r2 == IF time \in DOMAIN r1[day.name] THEN r1
              ELSE [r1 EXCEPT ![day.name] = @ @@ (time :> <<>>)]
        event_name == FreshEventName(event.name, DOMAIN r2[day.name][time], 0)
        entry == (room.name :> ParticipantsForPrint(event))
    IN  [r2 EXCEPT ![day.name][time] =
            [key \in DOMAIN @ \cup {event_name} |->
                IF key = event_name THEN entry ELSE @[key]]]

RECURSIVE ParseLoop(_, _, _, _)
ParseLoop(result, n, sol, problem) ==
    IF n > Len(sol) THEN result
    ELSE ParseLoop(Let(result, LAMBDA r :
                       ParseBlock(r, problem.lessons[n],
                                  problem.date_x_room[sol[n] + 1])),
                   n + 1, sol, problem)

\* lines 190-219
parse_pygad_solution_for_print(sol, ls, dxr) ==
    ParseLoop(<<>>, 1, sol, [lessons |-> ls, date_x_room |-> dxr])

\* the event table the decoder reads also holds two seminars of one name
\* (event.name is not UNIQUE, excel_parser.py 350-362), without participants
ParseEventPool ==
    EventPool \o << Event("B", <<2>>, <<>>, 1, "Sommer", 1, 1, <<>>) >>

ParseEventStores ==
    { [i \in 1..Cardinality(S) |->
          ParseEventPool[CHOOSE x \in S :
                             Cardinality({ y \in S : y < x }) = i - 1]] :
        S \in { T \in SUBSET (1..Len(ParseEventPool)) :
                  Cardinality(T) <= MaxEvents } }

(***************************************************************************)
(* Specification of the decoder: one call on a structurally valid          *)
(* chromosome over a prepared Problem.                                     *)
(***************************************************************************)
ParseInit ==
    /\ term \in TermNames
    /\ events_by_id \in ParseEventStores
    /\ dates_by_id \in { [d \in 1..n |-> DateOf(d)] : n \in 1..NumDates }
    /\ rooms_by_id \in { [r \in 1..n |-> RoomOf(r)] : n \in 1..NumRooms }
    /\ priority_rows = <<50, 100, 1>>
    /\ dislike_rows = <<>>
    /\ GAIdle
    /\ EvalIdle
    /\ DBIdle
    /\ lessons = prepare_lessons(events_by_id, term, 1)
    /\ date_x_room = prepare_date_x_room(dates_by_id, rooms_by_id)
    /\ employee_dislikes_date =
         prepare_employee_dislikes_date(priority_rows, dislike_rows)
    /\ parse_pc = "call"
    /\ pygad_solution \in Chromosomes(Len(lessons), Len(date_x_room))
    /\ parsed_solution = <<>>
    /\ print_pc = "idle"
    /\ cli_print = <<>>
    /\ cancel_requested = FALSE

\* line 258: parsed_solution = parse_pygad_solution_for_print(best_solution[0])
Parse ==
    /\ parse_pc = "call"
    /\ parsed_solution' =
         parse_pygad_solution_for_print(pygad_solution, lessons, date_x_room)
    /\ parse_pc' = "returned"
    /\ UNCHANGED <<envVars, printVars, dbVars, daoVars, storeVars, problemVars, evalVars, pygad_solution, gaVars,
                   histVars>>

SpecParse == ParseInit /\ [][Parse]_vars

(***************************************************************************)
(* C20: round-trip law: the decoded assignment of a structurally valid     *)
(* chromosome has one entry per block and determines the chromosome up to  *)
(* exchanging genes among blocks of the same event: every structurally     *)
(* valid chromosome with the same decoded assignment places every event    *)
(* on the same set of slots.                                               *)
(***************************************************************************)
SlotsOfEvent(g, id) == { g[i] : i \in BlocksOfEvent(id) }
SameUpToBlockOrder(g, h) ==
    \A id \in EventsOfTerm : SlotsOfEvent(g, id) = SlotsOfEvent(h, id)

\* the (day, time, event name) keys of a decoded assignment
EntriesOf(result) ==
    UNION { UNION { { <<day, time, event_name>> :
                        event_name \in DOMAIN result[day][time] } :
                    time \in DOMAIN result[day] } :
            day \in DOMAIN result }

C20_RoundTrip ==
    parse_pc = "returned" =>
        /\ Cardinality(EntriesOf(parsed_solution)) = Len(lessons)
        /\ \A g \in Chromosomes(Len(lessons), Len(date_x_room)) :
              parse_pygad_solution_for_print(g, lessons, date_x_room)
                    = parsed_solution
                => SameUpToBlockOrder(g, pygad_solution)

(***************************************************************************)
(* C25: an (employee, date) pair used by k >= 1 blocks adds exactly        *)
(* HARD * (k - 1) from the employee check, a (date, course, semester)      *)
(* triple used by k >= 1 blocks adds exactly HARD * (k - 1) from the       *)
(* student check, and the penalty is the sum of these group terms, the     *)
(* slot-local hard terms and the dislike weights.                          *)
(***************************************************************************)
\* number of blocks of group g (a (course, semester) pair) on date d
BlocksOfGroupOn(g, d) ==
    Cardinality({ i \in Blocks : g \in GroupsOfBlock(i) /\ DateIdOfBlock(i) = d })

EmployeeGroupTerm(p) == HARD_CONSTRAINT * (BlocksOfEmployeeOn(p[1], p[2]) - 1)
StudentGroupTerm(t) == HARD_CONSTRAINT * (BlocksOfGroupOn(t[2], t[1]) - 1)

EmployeeGroupTotal ==
    SumSet(EmployeeDatesUsed, [p \in EmployeeDatesUsed |-> EmployeeGroupTerm(p)])
StudentGroupTotal ==
    SumSet(GroupDatesUsed, [t \in GroupDatesUsed |-> StudentGroupTerm(t)])

C25_GroupTerms ==
    EvalDone =>
        /\ HARD_CONSTRAINT * hits_employee = EmployeeGroupTotal
        /\ HARD_CONSTRAINT * hits_student = StudentGroupTotal
        /\ Penalty = EmployeeGroupTotal + StudentGroupTotal
                       + SumBlocks(Len(lessons), [i \in Blocks |-> LocalPenalty(i)])
                       + DislikeTotal

\* a finished evaluation with an employee on one date in three blocks, a
\* group on one date in two blocks, and a pair used by one block only
C25_Witness ==
    /\ EvalDone
    /\ \E p \in EmployeeDatesUsed : BlocksOfEmployeeOn(p[1], p[2]) = 3
    /\ \E p \in EmployeeDatesUsed : BlocksOfEmployeeOn(p[1], p[2]) = 1
    /\ \E t \in GroupDatesUsed : BlocksOfGroupOn(t[2], t[1]) = 2
    /\ Penalty >= 3 * HARD_CONSTRAINT

(***************************************************************************)
(* C26: a penalty below HARD certifies hard feasibility: if the penalty is *)
(* less than 100, no block is on a disallowed day, no employee and no      *)
(* group is double-booked, no room is undersized or of the wrong type, and *)
(* the penalty is the sum of the dislike weights alone.                    *)
(***************************************************************************)
HardFeasible ==
    /\ NoBlockOnDisallowedDay
    /\ NoEmployeeDoubleBooked
    /\ NoRoomUndersized
    /\ AllRoomTypesMatch
    /\ NoGroupDoubleBooked

C26_BelowHardIsFeasible ==
    (EvalDone /\ Penalty < HARD_CONSTRAINT) =>
        /\ HardFeasible
        /\ Penalty = DislikeTotal

\* a finished evaluation of several blocks with a penalty between 1 and 99
C26_Witness ==
    /\ EvalDone
    /\ Len(lessons) >= 2
    /\ Penalty > 0
    /\ Penalty < HARD_CONSTRAINT
    /\ HardFeasible

(***************************************************************************)
(* db/database.py: the Database singleton.  One process, one thread; a     *)
(* call runs to its return or to the exception it raises.                  *)
(***************************************************************************)
\* the guard is left out
AlreadyInitialized_Never(flag) == FALSE

\* line 148: if self.__class__.__is_initialized
AlreadyInitialized(flag) == flag

\* lines 48-72, __delete_database_file; removable: whether os.remove
\* succeeds on the existing file
DeleteDatabaseFile(pool, file, removable) ==
    IF pool.is # "None"
    THEN [file |-> file, raised |-> "RuntimeError"]
    ELSE IF file /\ ~removable
         THEN [file |-> file, raised |-> "OSError"]
         ELSE [file |-> FALSE, raised |-> "none"]

\* lines 74-102, __initialize_connection_pool; opened: the number of calls
\* of sqlite3.connect that succeed before one raises (connect creates the
\* file)
InitializeConnectionPool(pool, file, opened) ==
    IF pool.is # "None"
    THEN [pool |-> pool, file |-> file, raised |-> "RuntimeError"]
    ELSE [pool |-> PoolQueue([c \in 1..opened |-> c]),
          file |-> (file \/ opened >= 1),
          raised |-> IF opened < MAX_CONNECTIONS THEN "sqlite3.Error"
                     ELSE "none"]

\* lines 135-163, initialize(delete_database_file)
initialize(db, delete_database_file, removable, opened) ==
    IF AlreadyInitialized(db.is_initialized)
    THEN [db EXCEPT !.raised = "none"]
    ELSE LET d0 == [db EXCEPT !.is_initialized = TRUE,
                              !.connection_pool = PoolNone]
             del == IF delete_database_file
                    THEN DeleteDatabaseFile(d0.connection_pool, d0.db_file,
                                            removable)
                    ELSE [file |-> d0.db_file, raised |-> "none"]
             ip == InitializeConnectionPool(d0.connection_pool, del.file,
                                            opened)
         IN  IF del.raised # "none"
             THEN [d0 EXCEPT !.db_file = del.file, !.raised = del.raised]
             ELSE [d0 EXCEPT !.connection_pool = ip.pool,
                             !.db_file = ip.file,
                             !.raised = ip.raised,
                             !.exit_handlers =
                                 IF ip.raised = "none" THEN @ + 1 ELSE @]

\* queue.Queue.get(block, timeout) in a single thread: nothing is put while
\* the call waits, so on an empty queue it raises Empty, or waits forever
\* when block is true and timeout is None
QueueGet(q, block, timeout) ==
    IF Len(q) > 0 THEN [raised |-> "none", bound |-> TRUE]
    ELSE IF block /\ timeout = "None" THEN [raised |-> "blocked", bound |-> FALSE]
    ELSE [raised |-> "Empty", bound |-> FALSE]

\* lines 197-198: the finally clause reads the local connection, which is
\* not bound when get raised
FinallyPut(get) ==
    IF get.raised = "Empty" /\ ~get.bound THEN "UnboundLocalError"
    ELSE get.raised

\* lines 188-196, create_connection up to the yield
create_connection(pool, hold, block, timeout) ==
    IF pool.is = "unset"
    THEN [pool |-> pool, held |-> hold, raised |-> "AttributeError"]
    ELSE IF pool.is = "None"
    THEN [pool |-> pool, held |-> hold, raised |-> "RuntimeError"]
    ELSE LET get == QueueGet(pool.queue, block, timeout)
         IN  IF get.bound
             THEN [pool |-> PoolQueue(Tail(pool.queue)),
                   held |-> Append(hold, Head(pool.queue)),
                   raised |-> "none"]
             ELSE [pool |-> pool, held |-> hold, raised |-> FinallyPut(get)]

\* the program outside the database: nothing loaded, nothing running
ProgramIdle ==
    /\ term = "Sommer"
    /\ events_by_id = <<>>
    /\ dates_by_id = <<>>
    /\ rooms_by_id = <<>>
    /\ priority_rows = <<>>
    /\ dislike_rows = <<>>
    /\ lessons = <<>>
    /\ date_x_room = <<>>
    /\ employee_dislikes_date = <<>>
    /\ EvalIdle
    /\ ParseIdle
    /\ GAIdle

\* the process starts; the database file may be left from an earlier run
DatabaseInit ==
    /\ ProgramIdle
    /\ is_initialized = FALSE
    /\ connection_pool = NoPoolAttribute
    /\ db_file \in BOOLEAN
    /\ exit_handlers = 0
    /\ held = <<>>
    /\ db_op = "none"
    /\ db_raised = "none"
    /\ initialize_calls = 0
    /\ in_transaction = [c \in Connections |-> FALSE]
    /\ pending = [c \in Connections |-> NoWrites]
    /\ table_rows = {}
    /\ dao_pc = "idle"
    /\ dao_arg = <<>>

DatabaseState ==
    [is_initialized |-> is_initialized, connection_pool |-> connection_pool,
     db_file |-> db_file, exit_handlers |-> exit_handlers, raised |-> db_raised]

\* a call of Database().initialize(delete_database_file)
Initialize ==
    /\ db_raised # "blocked"
    /\ dao_pc = "idle"
    /\ initialize_calls < MaxInitializeCalls
    /\ \E delete_database_file \in BOOLEAN, removable \in BOOLEAN,
          opened \in 0..MAX_CONNECTIONS :
         \E db \in { initialize(DatabaseState, delete_database_file,
                                removable, opened) } :
            /\ is_initialized' = db.is_initialized
            /\ connection_pool' = db.connection_pool
            /\ db_file' = db.db_file
            /\ exit_handlers' = db.exit_handlers
            /\ db_raised' = db.raised
    /\ db_op' = "initialize"
    /\ initialize_calls' = initialize_calls + 1
    /\ UNCHANGED <<held, daoVars, programVars>>

\* with Database().create_connection(block, timeout) as connection: entry
EnterConnection ==
    /\ db_raised # "blocked"
    /\ dao_pc = "idle"
    /\ \E block \in BOOLEAN, timeout \in {"None", "1"} :
         \E r \in { create_connection(connection_pool, held, block, timeout) } :
            /\ connection_pool' = r.pool
            /\ held' = r.held
            /\ db_raised' = r.raised
    /\ db_op' = "create_connection"
    /\ UNCHANGED <<is_initialized, db_file, exit_handlers, initialize_calls,
                   daoVars, programVars>>

\* the connection is put back only when the body did not raise
ReturnConnection_UnlessRaised(pool, hold, raised) ==
    [pool |-> IF raised = "none"
              THEN PoolQueue(Append(pool.queue, hold[Len(hold)]))
              ELSE pool,
     held |-> SubSeq(hold, 1, Len(hold) - 1)]

\* lines 197-198: finally self.__connection_pool.put(connection), whether
\* the body of the with block ended or raised
ReturnConnection(pool, hold, raised) ==
    [pool |-> PoolQueue(Append(pool.queue, hold[Len(hold)])),
     held |-> SubSeq(hold, 1, Len(hold) - 1)]

\* lines 197-198: the innermost with block is left, by its end or by an
\* exception of its body, and the connection is put back
ExitConnection ==
    /\ db_raised # "blocked"
    /\ dao_pc = "idle"
    /\ Len(held) > 0
    /\ \E raised \in {"none", "Error"} :
         \E r \in { ReturnConnection(connection_pool, held, raised) } :
            /\ connection_pool' = r.pool
            /\ held' = r.held
            /\ db_raised' = raised
    /\ db_op' = "exit"
    /\ UNCHANGED <<is_initialized, db_file, exit_handlers, initialize_calls,
                   daoVars, programVars>>

DatabaseNext == Initialize \/ EnterConnection \/ ExitConnection

SpecDatabase == DatabaseInit /\ [][DatabaseNext]_vars

(***************************************************************************)
(* C22: initialize is effective only once: a call after the first one,     *)
(* with any delete_database_file, does not delete the database file, does  *)
(* not replace or refill the connection pool and registers no further      *)
(* exit handler.                                                           *)
(***************************************************************************)
C22_LaterCallNoEffect ==
    (initialize_calls >= 1 /\ initialize_calls' = initialize_calls + 1) =>
        /\ db_file' = db_file
        /\ connection_pool' = connection_pool
        /\ exit_handlers' = exit_handlers

C22_InitializeOnce == [][C22_LaterCallNoEffect]_vars

\* a second call of initialize has returned while the file exists, the pool
\* is in use and one connection is checked out
C22_Witness ==
    /\ initialize_calls = 2
    /\ db_op = "initialize"
    /\ db_file
    /\ exit_handlers = 1
    /\ Len(held) = 1
    /\ Len(connection_pool.queue) = MAX_CONNECTIONS - 1

(***************************************************************************)
(* C23: create_connection raises queue.Empty when no connection can be     *)
(* obtained (block false and every pooled connection checked out, or block *)
(* true and the timeout expires); the pool is left unchanged and no other  *)
(* exception takes the place of Empty.                                     *)
(***************************************************************************)
C23_NoConnectionStep ==
    (/\ connection_pool.is = "Queue"
     /\ Len(connection_pool.queue) = 0
     /\ db_op' = "create_connection"
     /\ db_raised' # "blocked") =>
        /\ db_raised' = "Empty"
        /\ connection_pool' = connection_pool
        /\ held' = held

C23_EmptyRaised == [][C23_NoConnectionStep]_vars

(***************************************************************************)
(* C24: create_connection raises RuntimeError("No connection pool          *)
(* exists.") whenever no connection pool exists, also on a Database on     *)
(* which initialize has never been called.                                 *)
(***************************************************************************)
C24_NoPoolRuntimeError ==
    (db_op = "create_connection" /\ connection_pool.is # "Queue") =>
        db_raised = "RuntimeError"

(***************************************************************************)
(* C29: the Database is never left marked as initialized without a usable  *)
(* pool: whenever the flag is set (between calls) a pool with              *)
(* MAX_CONNECTIONS open connections exists, and when a call of initialize  *)
(* has raised, the next call of initialize performs the initialization     *)
(* again.                                                                  *)
(***************************************************************************)
UsablePool ==
    /\ connection_pool.is = "Queue"
    /\ Len(connection_pool.queue) + Len(held) = MAX_CONNECTIONS

C29_StateOk == is_initialized => UsablePool

C29_StepOk ==
    (/\ db_op = "initialize"
     /\ db_raised # "none"
     /\ initialize_calls' = initialize_calls + 1
     /\ db_raised' = "none") => UsablePool'

C29_InitializedHasPool == []C29_StateOk /\ [][C29_StepOk]_vars

(***************************************************************************)
(* db/dao/triple_key_dao.py over sqlite3 connections opened with           *)
(* autocommit=True (database.py 93-97): a statement outside a transaction  *)
(* is committed at once; BEGIN opens a transaction on its connection, in   *)
(* which statements write an image of the table that COMMIT makes the      *)
(* table; a statement that fails undoes itself and leaves the transaction  *)
(* open; while one connection has written in an open transaction, a write  *)
(* on another connection fails (database is locked).  The table is the set *)
(* of its primary keys.                                                    *)
(***************************************************************************)
RowKeys == 1..NumRowKeys

RECURSIVE SeqsUpTo(_, _)
SeqsUpTo(S, n) ==
    IF n = 0 THEN { <<>> }
    ELSE SeqsUpTo(S, n - 1)
           \cup { Append(q, x) : q \in { r \in SeqsUpTo(S, n - 1) : Len(r) = n - 1 },
                                 x \in S }

Batches == SeqsUpTo(RowKeys, MaxBatch)

DaoOps ==
    {"create_table", "insert", "insert_all", "select", "select_all", "update",
     "delete"}

\* the arguments of a call: the entities of insert_all, the key of the
\* entity for insert, select, update and delete
DaoArgs(op) ==
    IF op = "insert_all" THEN Batches
    ELSE IF op \in {"create_table", "select_all"} THEN { <<>> }
    ELSE { <<key>> : key \in RowKeys }

SqliteState ==
    [in_transaction |-> in_transaction, pending |-> pending,
     table_rows |-> table_rows, raised |-> "none"]

\* the rows connection c sees
Visible(sq, c) ==
    IF sq.pending[c].wrote THEN sq.pending[c].rows ELSE sq.table_rows

LockedByOther(sq, c) == \E o \in Connections \ {c} : sq.pending[o].wrote

\* a statement on c that turns the visible rows into image and fails with
\* error (or "none"): a failed statement changes no row
WriteStatement(sq, c, image, error) ==
    IF sq.raised # "none" THEN sq
    ELSE IF LockedByOther(sq, c) THEN [sq EXCEPT !.raised = "OperationalError"]
    ELSE IF sq.in_transaction[c]
    THEN [sq EXCEPT !.pending[c] =
                        [wrote |-> TRUE,
                         rows |-> IF error = "none" THEN image
                                  ELSE Visible(sq, c)],
                    !.raised = error]
    ELSE [sq EXCEPT !.table_rows = IF error = "none" THEN image ELSE @,
                    !.raised = error]

\* the insert query for one entity: the primary key must be new
InsertStatement(sq, c, key) ==
    WriteStatement(sq, c, Visible(sq, c) \cup {key},
                   IF key \in Visible(sq, c) THEN "IntegrityError" ELSE "none")

\* line 137: connection.execute("BEGIN TRANSACTION;")
Begin(sq, c) ==
    IF sq.raised # "none" THEN sq
    ELSE IF sq.in_transaction[c] THEN [sq EXCEPT !.raised = "OperationalError"]
    ELSE [sq EXCEPT !.in_transaction[c] = TRUE]

\* line 141: connection.execute("COMMIT;"), reached only when nothing raised
Commit(sq, c) ==
    IF sq.raised # "none" THEN sq
    ELSE [sq EXCEPT !.in_transaction[c] = FALSE,
                    !.table_rows = Visible(sq, c),
                    !.pending[c] = NoWrites]

RECURSIVE ExecuteMany(_, _, _, _)
\* lines 138-140: connection.executemany(insert_query, entities)
ExecuteMany(sq, c, entities, k) ==
    IF k > Len(entities) \/ sq.raised # "none" THEN sq
    ELSE ExecuteMany(InsertStatement(sq, c, entities[k]), c, entities, k + 1)

\* the statement to report when no row was affected (raised after the with
\* block, lines 117, 197, 242, 281)
NoRowAffected(sq, affected) ==
    IF sq.raised = "none" /\ ~affected
    THEN [sq EXCEPT !.raised = "OperationalError"] ELSE sq

\* the body of the with block of a DAO method and the test that follows it
DaoStatements(sq, c, op, arg) ==
    IF op = "insert_all"
    THEN Commit(ExecuteMany(Begin(sq, c), c, arg, 1), c)
    ELSE IF op = "insert" THEN InsertStatement(sq, c, arg[1])
    ELSE IF op = "delete"
    THEN NoRowAffected(WriteStatement(sq, c, Visible(sq, c) \ {arg[1]}, "none"),
                       arg[1] \in Visible(sq, c))
    ELSE IF op = "update"
    THEN NoRowAffected(WriteStatement(sq, c, Visible(sq, c), "none"),
                       arg[1] \in Visible(sq, c))
    ELSE IF op = "select" THEN NoRowAffected(sq, arg[1] \in Visible(sq, c))
    ELSE sq

\* a DAO method up to the entry of its with block:
\* with Database().create_connection() as connection
DaoEnter ==
    /\ db_raised # "blocked"
    /\ dao_pc = "idle"
    /\ \E op \in DaoOps : \E arg \in DaoArgs(op) :
         \E r \in { create_connection(connection_pool, held, TRUE, "None") } :
            /\ connection_pool' = r.pool
            /\ held' = r.held
            /\ db_raised' = r.raised
            /\ db_op' = op
            /\ dao_pc' = (IF r.raised = "none" THEN op ELSE "idle")
            /\ dao_arg' = (IF r.raised = "none" THEN arg ELSE <<>>)
    /\ UNCHANGED <<is_initialized, db_file, exit_handlers, initialize_calls,
                   in_transaction, pending, table_rows, programVars>>

\* the statements of the with block, its exit, and the return or the
\* exception of the method
DaoBody ==
    /\ dao_pc # "idle"
    /\ \E sq \in { DaoStatements(SqliteState, held[Len(held)], dao_pc, dao_arg) } :
         /\ in_transaction' = sq.in_transaction
         /\ pending' = sq.pending
         /\ table_rows' = sq.table_rows
         /\ db_raised' = sq.raised
         /\ \E r \in { ReturnConnection(connection_pool, held, sq.raised) } :
              /\ connection_pool' = r.pool
              /\ held' = r.held
    /\ dao_pc' = "idle"
    /\ dao_arg' = <<>>
    /\ UNCHANGED <<is_initialized, db_file, exit_handlers, db_op,
                   initialize_calls, programVars>>

DaoNext == Initialize \/ DaoEnter \/ DaoBody

SpecDao == DatabaseInit /\ [][DaoNext]_vars

(***************************************************************************)
(* C27: connection pool conservation: once initialize has succeeded, in    *)
(* any sequence of DAO operations, returning or raising, at most one       *)
(* connection is checked out at any moment, the pool holds exactly         *)
(* MAX_CONNECTIONS connections between operations, and create_connection   *)
(* never waits forever.                                                    *)
(***************************************************************************)
InitializeSucceeded == exit_handlers >= 1

PooledConnections ==
    { connection_pool.queue[n] : n \in 1..Len(connection_pool.queue) }

C27_PoolConserved ==
    InitializeSucceeded =>
        /\ connection_pool.is = "Queue"
        /\ Len(held) <= 1
        /\ Len(connection_pool.queue) + Len(held) = MAX_CONNECTIONS
        /\ PooledConnections \cup { held[n] : n \in 1..Len(held) } = Connections
        /\ dao_pc = "idle" => Len(connection_pool.queue) = MAX_CONNECTIONS
        /\ db_raised # "blocked"

\* an operation has raised after initialize succeeded, every connection has
\* been used, and the pool is whole again
C27_Witness ==
    /\ InitializeSucceeded
    /\ dao_pc = "idle"
    /\ db_op = "insert"
    /\ db_raised = "IntegrityError"
    /\ Len(connection_pool.queue) = MAX_CONNECTIONS
    /\ connection_pool.queue[1] # 1

(***************************************************************************)
(* C28: a failed batch insert leaves no trace: when insert_all raises,     *)
(* none of the rows of the batch are persisted and the connection is       *)
(* returned to the pool with no transaction open, so that a later          *)
(* insert_all on the same connection can begin its own transaction.        *)
(***************************************************************************)
C28_FailedBatchNoTrace ==
    (InitializeSucceeded /\ dao_pc = "idle" /\ db_op = "insert_all"
       /\ db_raised # "none") =>
        \A c \in PooledConnections :
            /\ ~in_transaction[c]
            /\ ~pending[c].wrote

(***************************************************************************)
(* save_tabular (main.py 102-306): the decoded assignment as text tables.  *)
(* An OrderedDict is a record of its keys in order and its items; a cell   *)
(* is the sequence of the parts that " | ".join concatenates, the empty    *)
(* string the empty sequence; tabulate prints the j-th cell of a row under *)
(* the j-th header.                                                        *)
(***************************************************************************)
\* api/models/day.py 8-16
NAMES ==
    <<"Montag", "Dienstag", "Mittwoch", "Donnerstag", "Freitag", "Samstag",
      "Sonntag">>

RECURSIVE SortedBy(_, _)
\* sorted(...) of a set of keys, by the rank of each key in Python's order
SortedBy(S, rank) ==
    IF S = {} THEN <<>>
    ELSE LET m == CHOOSE x \in S : \A y \in S : rank[x] <= rank[y]
         IN  <<m>> \o SortedBy(S \ {m}, rank)

RECURSIVE Filter(_, _)
\* the items of a sequence that lie in a set, in their order
Filter(q, S) ==
    IF q = <<>> THEN <<>>
    ELSE (IF Head(q) \in S THEN <<Head(q)>> ELSE <<>>) \o Filter(Tail(q), S)

\* the ids of table time_slot: the time slots the dates refer to
TimeSlotIds == { dates_by_id[d].time_slot : d \in DOMAIN dates_by_id }

\* "HH:MM - HH:MM" strings compare as their start times do
TimeRank(times) ==
    [t \in times |-> CHOOSE ts \in TimeSlotIds : TimeOf(ts) = t]

\* the names the decoder can give: a name of the pool, by itself or with
\* " (count)", in the order of Python's string comparison
EventNameAt(i, counts) ==
    LET base == <<"A", "B", "C", "D", "E">>[((i - 1) \div (counts + 1)) + 1]
        count == (i - 1) % (counts + 1)
    IN  IF count = 0 THEN base ELSE base \o " (" \o ToString(count) \o ")"

EventNameRank(names) ==
    [name \in names |->
        CHOOSE i \in 1..(5 * (Len(lessons) + 1)) :
            EventNameAt(i, Len(lessons)) = name]

\* lines 113-135
sort_time_table(parsed) ==
    LET days == Filter(NAMES, DOMAIN parsed)
    IN  [keys |-> days,
         at |-> [day_name \in Range(days) |->
                   [keys |-> SortedBy(DOMAIN parsed[day_name],
                                      TimeRank(DOMAIN parsed[day_name])),
                    at |-> [timeslot \in DOMAIN parsed[day_name] |->
                              [keys |-> SortedBy(
                                           DOMAIN parsed[day_name][timeslot],
                                           EventNameRank(
                                             DOMAIN parsed[day_name][timeslot])),
                               at |-> parsed[day_name][timeslot]]]]]]

\* the room lecture has in the table of (semester, course) at day and time,
\* as a set: empty when the lecture is not held for them
RoomsFor(sorted_time_table, day, time, lecture, semester, course) ==
    LET rooms == sorted_time_table.at[day].at[time].at[lecture]
    IN  { room \in DOMAIN rooms :
            /\ course \in DOMAIN rooms[room]
            /\ semester \in Range(rooms[room][course]) }

\* lines 152-186: the table of one semester and course, its days, times and
\* lectures in the order in which the loops first meet them
SeparateTable(sorted_time_table, semester, course) ==
    LET lectures(day, time) ==
            { lecture \in DOMAIN sorted_time_table.at[day].at[time].at :
                RoomsFor(sorted_time_table, day, time, lecture, semester,
                         course) # {} }
        times(day) ==
            { time \in DOMAIN sorted_time_table.at[day].at :
                lectures(day, time) # {} }
        days == { day \in DOMAIN sorted_time_table.at : times(day) # {} }
    IN  [keys |-> Filter(sorted_time_table.keys, days),
         at |-> [day \in days |->
                   [keys |-> Filter(sorted_time_table.at[day].keys, times(day)),
                    at |-> [time \in times(day) |->
                              [keys |-> Filter(
                                   sorted_time_table.at[day].at[time].keys,
                                   lectures(day, time)),
                               at |-> [lecture \in lectures(day, time) |->
                                         CHOOSE room \in RoomsFor(
                                             sorted_time_table, day, time,
                                             lecture, semester, course) :
                                             TRUE]]]]]]

\* the (semester, course) pairs some lecture is held for
SemesterCourses(sorted_time_table) ==
    { sc \in (1..2) \X { CourseAbbreviation(1), CourseAbbreviation(2) } :
        \E day \in DOMAIN sorted_time_table.at :
          \E time \in DOMAIN sorted_time_table.at[day].at :
            \E lecture \in DOMAIN sorted_time_table.at[day].at[time].at :
              RoomsFor(sorted_time_table, day, time, lecture, sc[1], sc[2])
                # {} }

\* lines 137-195: the tables by semester and then by course, both sorted
separate_time_tables(sorted_time_table) ==
    LET pairs == SemesterCourses(sorted_time_table)
        rank == [sc \in pairs |->
                   2 * sc[1] + (IF sc[2] = CourseAbbreviation(1) THEN 0 ELSE 1)]
        keys == SortedBy(pairs, rank)
    IN  [keys |-> keys,
         at |-> [sc \in pairs |-> SeparateTable(sorted_time_table, sc[1], sc[2])]]

\* lines 219-233: the cell of one day and time, a part per task; the two
\* branches on separated differ in how the text of a part is written
CellOf(table, day_name, time, separated) ==
    IF time \notin DOMAIN table.at[day_name].at THEN <<>>
    ELSE LET tasks == table.at[day_name].at[time]
         IN  [n \in 1..Len(tasks.keys) |->
                [task |-> tasks.keys[n], subtasks |-> tasks.at[tasks.keys[n]]]]

\* lines 197-239: a row per time slot of the table time_slot, in it a cell
\* per day of the table; the headers are all weekdays
sorted_time_table_to_cli_print(table, separated) ==
    LET order == SortedBy(TimeSlotIds, [ts \in TimeSlotIds |-> ts])
    IN  [headers |-> <<"Uhrzeit">> \o NAMES,
         table_data |->
           [r \in 1..Len(order) |->
              << TimeOf(order[r]) >> \o
              [j \in 1..Len(table.keys) |->
                  CellOf(table, table.keys[j], TimeOf(order[r]), separated)]]]

\* lines 241-270: the complete table, then the table of every semester and
\* course; with each its title and the table it was printed from
all_time_tables_to_cli_print(sorted_time_table, separated_time_tables) ==
    << [title |-> <<>>, separated |-> FALSE, table |-> sorted_time_table,
        print |-> sorted_time_table_to_cli_print(sorted_time_table, FALSE)] >>
    \o [k \in 1..Len(separated_time_tables.keys) |->
          LET sc == separated_time_tables.keys[k]
          IN  [title |-> sc, separated |-> TRUE,
               table |-> separated_time_tables.at[sc],
               print |-> sorted_time_table_to_cli_print(
                             separated_time_tables.at[sc], TRUE)]]

\* lines 293-302
save_tabular(parsed) ==
    LET sorted_time_table == sort_time_table(parsed)
    IN  all_time_tables_to_cli_print(sorted_time_table,
                                     separate_time_tables(sorted_time_table))

\* main.py 325: save_tabular(parsed_solution, fitness, debug_mode)
SaveTabular ==
    /\ parse_pc = "returned"
    /\ print_pc = "idle"
    /\ cli_print' = save_tabular(parsed_solution)
    /\ print_pc' = "saved"
    /\ UNCHANGED <<envVars, dbVars, daoVars, storeVars, problemVars, evalVars,
                   parseVars, gaVars, histVars>>

PrintNext == Parse \/ SaveTabular

SpecPrint == ParseInit /\ [][PrintNext]_vars

(***************************************************************************)
(* C30: in every table produced by sorted_time_table_to_cli_print (the     *)
(* complete table and each per-semester, per-course table), a block        *)
(* scheduled on day D at time T is printed in the row of T and in the      *)
(* column whose header is D, also when an earlier weekday has no entry in  *)
(* that table.                                                             *)
(***************************************************************************)
ColumnOf(headers, day_name) ==
    CHOOSE j \in 1..Len(headers) : headers[j] = day_name

PrintedUnderItsDay(t) ==
    \A day_name \in DOMAIN t.table.at :
      \A time \in DOMAIN t.table.at[day_name].at :
        \E r \in 1..Len(t.print.table_data) :
          LET row == t.print.table_data[r]
              col == ColumnOf(t.print.headers, day_name)
          IN  /\ row[1] = time
              /\ col \in 1..Len(row)
              /\ row[col] = CellOf(t.table, day_name, time, t.separated)

C30_PrintedUnderItsDay ==
    print_pc = "saved" => \A k \in 1..Len(cli_print) : PrintedUnderItsDay(cli_print[k])

(***************************************************************************)
(* C21: cancellation is cooperative: the search driver checks a            *)
(* cancellation flag at every generation boundary, and once the flag is    *)
(* set the run ends at the next boundary and returns the best individual   *)
(* seen so far with a Cancelled outcome, never in the middle of a          *)
(* generation.                                                             *)
(***************************************************************************)
\* a step that ends a generation after the request ends the run
C21_BoundaryStep ==
    (cancel_requested /\ pc = "update" /\ pc' # pc) => pc' = "best"

C21_CancelAtBoundary == [][C21_BoundaryStep]_vars

====
